---------------------------- MODULE Spec2Model ----------------------------
(*
  A model of the persistence and filtering core of the animal shelter
  manager: the SQLite-backed DatabaseService (database_service/mod.rs).

  Text values that the code inspects character by character (record ids:
  trim(), CAST(id AS INTEGER), to_string()) are sequences of one-character
  strings.  Text values that are only stored and compared are TLA+ strings.
  Option<T> is a sequence of length 0 (None) or 1 (Some).
*)
EXTENDS Integers, Sequences, FiniteSets, TLC

VARIABLES
    animals,            \* rows of table animals, in rowid order
    adoption_requests,  \* rows of table adoption_requests, in rowid order
    last,               \* the last call: operation, id given and what it returned
    pending,            \* the list query a caller is about to issue: its filters and
                        \* the wall clock (Utc::now) at which it runs
    animal_run,         \* history: blank-id inserts since animals was empty, -1 once
                        \* another write changed the table
    request_run,        \* history: the same for adoption_requests
    user_authentication,\* rows of table user_authentication, in rowid order
    current_user,       \* AuthenticationService.current_user: None or Some(username)
    auth_last,          \* the last call of the authentication service and its result
    signed_up,          \* history: the password each stored user signed up with
    app_state,          \* AppState: which of the three Option<Service> fields are Some
    constructed,        \* history: how often each service was constructed
    state_guard,        \* the Mutex<AppState>: 0 when free, else the invocation holding it
    invocations,        \* the commands invoked: command, position, locals and result
    files,              \* the file system: the files and symbolic links that exist
    codec               \* an enum value or a stored text, and what converting it gave

db_vars == <<animals, adoption_requests, last, pending, animal_run, request_run>>

auth_vars == <<user_authentication, current_user, auth_last, signed_up>>

app_vars == <<app_state, constructed, state_guard, invocations, files, codec>>

vars == <<db_vars, auth_vars, app_vars>>

--------------------------------------------------------------------------
(* Bounds of the model *)

MaxAnimals == 2
MaxRequests == 2
\* generated ids grow without bound as rows are deleted and inserted
MaxId == 2

--------------------------------------------------------------------------
(* Text *)

None == <<>>
Some(x) == <<x>>

Str0 == <<>>
StrBlank == <<" ">>
Str1 == <<"1">>
Str2 == <<"2">>
StrA1 == <<"a", "1">>
StrR1 == <<"r", "1">>
StrNonexistent == <<"n", "o">>

Digits == <<"0", "1", "2", "3", "4", "5", "6", "7", "8", "9">>

IsDigit(c) == \E d \in 1..10 : Digits[d] = c

DigitValue(c) == (CHOOSE d \in 1..10 : Digits[d] = c) - 1

IsWhitespace(c) == c \in {" ", "\t", "\n", "\r"}

RECURSIVE TrimStart(_)
TrimStart(s) ==
    IF s # <<>> /\ IsWhitespace(Head(s)) THEN TrimStart(Tail(s)) ELSE s

RECURSIVE TrimEnd(_)
TrimEnd(s) ==
    IF s # <<>> /\ IsWhitespace(s[Len(s)])
    THEN TrimEnd(SubSeq(s, 1, Len(s) - 1))
    ELSE s

\* str::trim
Trim(s) == TrimEnd(TrimStart(s))

\* i64::to_string
RECURSIVE NatToString(_)
NatToString(n) ==
    IF n < 10 THEN <<Digits[n + 1]>>
    ELSE NatToString(n \div 10) \o <<Digits[(n % 10) + 1]>>

I64ToString(n) == IF n < 0 THEN <<"-">> \o NatToString(-n) ELSE NatToString(n)

\* the value of the longest prefix of digits of s, read left to right
RECURSIVE DigitPrefix(_, _)
DigitPrefix(s, acc) ==
    IF s # <<>> /\ IsDigit(Head(s))
    THEN DigitPrefix(Tail(s), 10 * acc + DigitValue(Head(s)))
    ELSE acc

\* SQLite CAST(text AS INTEGER): leading white space is skipped, then the
\* longest prefix that reads as an integer is taken; 0 when there is none
CastInteger(s) ==
    LET t == TrimStart(s)
    IN  IF t = <<>> THEN 0
        ELSE IF Head(t) = "-" THEN 0 - DigitPrefix(Tail(t), 0)
        ELSE IF Head(t) = "+" THEN DigitPrefix(Tail(t), 0)
        ELSE DigitPrefix(t, 0)

--------------------------------------------------------------------------
(* Enums stored as kebab-case text (database_service/types.rs) *)

AnimalStatus == {"Available", "Requested", "Adopted", "PassedAway"}
RequestStatus == {"Pending", "Rejected", "Approved"}

\* strum Display with serialize_all = "kebab-case"
AnimalStatusToString(v) ==
    CASE v = "Available" -> "available"
      [] v = "Requested" -> "requested"
      [] v = "Adopted" -> "adopted"
      [] v = "PassedAway" -> "passed-away"

RequestStatusToString(v) ==
    CASE v = "Pending" -> "pending"
      [] v = "Rejected" -> "rejected"
      [] v = "Approved" -> "approved"

\* strum EnumString: the variant whose name is the text, else a parse error
AnimalStatusFromStr(t) ==
    IF \E v \in AnimalStatus : AnimalStatusToString(v) = t
    THEN CHOOSE v \in AnimalStatus : AnimalStatusToString(v) = t
    ELSE "ParseError"

RequestStatusFromStr(t) ==
    IF \E v \in RequestStatus : RequestStatusToString(v) = t
    THEN CHOOSE v \in RequestStatus : RequestStatusToString(v) = t
    ELSE "ParseError"

--------------------------------------------------------------------------
(* Records.  An Animal / AdoptionRequest is the value a caller passes; a row
   is what the table holds: the same columns, the status as stored text. *)

AnimalToRow(id, animal) ==
    [id |-> id,
     name |-> animal.name,
     specie |-> animal.specie,
     breed |-> animal.breed,
     sex |-> animal.sex,
     birth_month |-> animal.birth_month,
     birth_year |-> animal.birth_year,
     neutered |-> animal.neutered,
     admission_timestamp |-> animal.admission_timestamp,
     status |-> AnimalStatusToString(animal.status),
     image_path |-> animal.image_path,
     appearance |-> animal.appearance,
     bio |-> animal.bio]

\* the row mapping of query_animal_by_id: every column read back, the status parsed
RowToAnimal(row) == [row EXCEPT !.status = AnimalStatusFromStr(row.status)]

RequestToRow(id, request) ==
    [id |-> id,
     animal_id |-> request.animal_id,
     username |-> request.username,
     name |-> request.name,
     email |-> request.email,
     tel_number |-> request.tel_number,
     address |-> request.address,
     occupation |-> request.occupation,
     annual_income |-> request.annual_income,
     num_people |-> request.num_people,
     num_children |-> request.num_children,
     request_timestamp |-> request.request_timestamp,
     adoption_timestamp |-> request.adoption_timestamp,
     status |-> RequestStatusToString(request.status),
     country |-> request.country]

RowToRequest(row) == [row EXCEPT !.status = RequestStatusFromStr(row.status)]

--------------------------------------------------------------------------
(* Tables *)

Ids(table) == {table[i].id : i \in 1..Len(table)}

HasId(table, id) == \E i \in 1..Len(table) : table[i].id = id

IndexOf(table, id) == CHOOSE i \in 1..Len(table) : table[i].id = id

RemoveAt(table, i) == SubSeq(table, 1, i - 1) \o SubSeq(table, i + 1, Len(table))

RECURSIVE MaxOf(_)
MaxOf(S) ==
    LET x == CHOOSE y \in S : TRUE
    IN  IF S = {x} THEN x
        ELSE LET m == MaxOf(S \ {x}) IN IF x > m THEN x ELSE m

\* SELECT COALESCE(MAX(CAST(id AS INTEGER)), 0) FROM table
MaxCastId(table) ==
    IF Len(table) = 0 THEN 0
    ELSE MaxOf({CastInteger(table[i].id) : i \in 1..Len(table)})

\* a variant that counts the rows
InsertIdByCount(table, given) ==
    IF Trim(given) = <<>> THEN I64ToString(Len(table) + 1) ELSE given

\* a variant that tests is_empty() without trim()
InsertIdNoTrim(table, given) ==
    IF given = <<>> THEN I64ToString(MaxCastId(table) + 1) ELSE given

\* the id an insert uses: generated when the given one is blank
InsertId(table, given) ==
    IF Trim(given) = <<>> THEN I64ToString(MaxCastId(table) + 1) ELSE given

\* FOREIGN KEY (animal_id) REFERENCES animals (id), as the store enforces it
\* (test_requests_foreign_key): a child row needs its parent
ForeignKeyHolds(parents, animal_id) == HasId(parents, animal_id)

\* a parent row that child rows reference cannot be removed (no ON DELETE action)
IsReferenced(children, animal_id) ==
    \E i \in 1..Len(children) : children[i].animal_id = animal_id

--------------------------------------------------------------------------
(* DatabaseService: what each call does to its table and what it returns.
   An outcome is [ok, cause, table, id, changed]: Ok/Err, the constraint
   that failed, the table afterwards, the id used, and the bool returned. *)

Outcome(ok, cause, table, id, changed) ==
    [ok |-> ok, cause |-> cause, table |-> table, id |-> id, changed |-> changed]

\* a variant that writes INSERT OR REPLACE
InsertAnimalOrReplace(table, animal) ==
    LET id == InsertId(table, animal.id)
    IN  IF HasId(table, id)
        THEN Outcome(TRUE, "", [table EXCEPT ![IndexOf(table, id)] = AnimalToRow(id, animal)],
                     id, TRUE)
        ELSE Outcome(TRUE, "", Append(table, AnimalToRow(id, animal)), id, TRUE)

\* insert_animal: id TEXT PRIMARY KEY rejects an id that a row already has
InsertAnimalOutcome(table, animal) ==
    LET id == InsertId(table, animal.id)
    IN  IF HasId(table, id)
        THEN Outcome(FALSE, "PrimaryKey", table, id, FALSE)
        ELSE Outcome(TRUE, "", Append(table, AnimalToRow(id, animal)), id, TRUE)

\* a variant whose SET list leaves out status
UpdateAnimalKeepingStatus(table, animal) ==
    IF HasId(table, animal.id)
    THEN Outcome(TRUE, "",
                 [table EXCEPT ![IndexOf(table, animal.id)] =
                     [AnimalToRow(animal.id, animal) EXCEPT
                         !.status = table[IndexOf(table, animal.id)].status]],
                 animal.id, TRUE)
    ELSE Outcome(TRUE, "", table, animal.id, FALSE)

\* update_animal: every column but id overwritten where id matches
UpdateAnimalOutcome(table, animal) ==
    IF HasId(table, animal.id)
    THEN Outcome(TRUE, "",
                 [table EXCEPT ![IndexOf(table, animal.id)] = AnimalToRow(animal.id, animal)],
                 animal.id, TRUE)
    ELSE Outcome(TRUE, "", table, animal.id, FALSE)

\* a variant run with foreign keys off: the row goes whatever references it
DeleteAnimalUnchecked(table, children, animal_id) ==
    IF ~HasId(table, animal_id)
    THEN Outcome(TRUE, "", table, animal_id, FALSE)
    ELSE Outcome(TRUE, "", RemoveAt(table, IndexOf(table, animal_id)), animal_id, TRUE)

\* a variant that reports a missing row as an error
DeleteAnimalMissingIsError(table, children, animal_id) ==
    IF ~HasId(table, animal_id)
    THEN Outcome(FALSE, "NotFound", table, animal_id, FALSE)
    ELSE IF IsReferenced(children, animal_id)
    THEN Outcome(FALSE, "ForeignKey", table, animal_id, FALSE)
    ELSE Outcome(TRUE, "", RemoveAt(table, IndexOf(table, animal_id)), animal_id, TRUE)

\* delete_animal: DELETE FROM animals WHERE id = ?1, refused by the foreign
\* key of adoption_requests while a request references the row
DeleteAnimalOutcome(table, children, animal_id) ==
    IF ~HasId(table, animal_id)
    THEN Outcome(TRUE, "", table, animal_id, FALSE)
    ELSE IF IsReferenced(children, animal_id)
    THEN Outcome(FALSE, "ForeignKey", table, animal_id, FALSE)
    ELSE Outcome(TRUE, "", RemoveAt(table, IndexOf(table, animal_id)), animal_id, TRUE)

\* query_animal_by_id: Some(animal) or None
QueryAnimalById(table, animal_id) ==
    IF HasId(table, animal_id)
    THEN Some(RowToAnimal(table[IndexOf(table, animal_id)]))
    ELSE None

\* a variant run with foreign keys off
InsertRequestUnchecked(table, parents, request) ==
    LET id == InsertId(table, request.id)
    IN  IF HasId(table, id)
        THEN Outcome(FALSE, "PrimaryKey", table, id, FALSE)
        ELSE Outcome(TRUE, "", Append(table, RequestToRow(id, request)), id, TRUE)

\* insert_adoption_request
InsertRequestOutcome(table, parents, request) ==
    LET id == InsertId(table, request.id)
    IN  IF HasId(table, id)
        THEN Outcome(FALSE, "PrimaryKey", table, id, FALSE)
        ELSE IF ~ForeignKeyHolds(parents, request.animal_id)
        THEN Outcome(FALSE, "ForeignKey", table, id, FALSE)
        ELSE Outcome(TRUE, "", Append(table, RequestToRow(id, request)), id, TRUE)

\* a variant run with foreign keys off
UpdateRequestUnchecked(table, parents, request) ==
    IF ~HasId(table, request.id)
    THEN Outcome(TRUE, "", table, request.id, FALSE)
    ELSE Outcome(TRUE, "",
                 [table EXCEPT ![IndexOf(table, request.id)] = RequestToRow(request.id, request)],
                 request.id, TRUE)

\* update_adoption_request: animal_id is one of the columns overwritten
UpdateRequestOutcome(table, parents, request) ==
    IF ~HasId(table, request.id)
    THEN Outcome(TRUE, "", table, request.id, FALSE)
    ELSE IF ~ForeignKeyHolds(parents, request.animal_id)
    THEN Outcome(FALSE, "ForeignKey", table, request.id, FALSE)
    ELSE Outcome(TRUE, "",
                 [table EXCEPT ![IndexOf(table, request.id)] = RequestToRow(request.id, request)],
                 request.id, TRUE)

\* delete_adoption_request
DeleteRequestOutcome(table, request_id) ==
    IF HasId(table, request_id)
    THEN Outcome(TRUE, "", RemoveAt(table, IndexOf(table, request_id)), request_id, TRUE)
    ELSE Outcome(TRUE, "", table, request_id, FALSE)

\* query_adoption_request_by_id
QueryRequestById(table, request_id) ==
    IF HasId(table, request_id)
    THEN Some(RowToRequest(table[IndexOf(table, request_id)]))
    ELSE None

\* query_adoption_requests_by_animal_id: WHERE animal_id = ?1
QueryRequestsByAnimalId(table, animal_id) ==
    LET Match(row) == row.animal_id = animal_id
    IN  [i \in 1..Len(SelectSeq(table, Match)) |-> RowToRequest(SelectSeq(table, Match)[i])]

\* query_adoption_requests_by_username: WHERE username = ?1
QueryRequestsByUsername(table, username) ==
    LET Match(row) == row.username = username
    IN  [i \in 1..Len(SelectSeq(table, Match)) |-> RowToRequest(SelectSeq(table, Match)[i])]

--------------------------------------------------------------------------
(* The values callers pass in this model (database_service/test.rs) *)

Buddy ==
    [id |-> Str0,
     name |-> "Buddy",
     specie |-> "Dog",
     breed |-> "Golden Retriever",
     sex |-> "Male",
     birth_month |-> Some(6),
     birth_year |-> Some(2020),
     neutered |-> TRUE,
     admission_timestamp |-> 10,
     status |-> "Available",
     image_path |-> Some("/test/images/buddy.jpg"),
     appearance |-> "Golden coat with friendly eyes",
     bio |-> "Buddy is a friendly and energetic dog"]

BuddyAdopted == [Buddy EXCEPT !.status = "Adopted"]

Lucy ==
    [id |-> Str0,
     name |-> "Lucy",
     specie |-> "Cat",
     breed |-> "Siamese",
     sex |-> "Female",
     birth_month |-> None,
     birth_year |-> None,
     neutered |-> FALSE,
     admission_timestamp |-> 20,
     status |-> "PassedAway",
     image_path |-> None,
     appearance |-> "Sleek black fur with green eyes",
     bio |-> "Lucy is a calm and independent cat"]

AnimalValues == {Buddy, BuddyAdopted, Lucy}

JiraPit ==
    [id |-> Str0,
     animal_id |-> Str1,
     username |-> "JiraPit",
     name |-> "Jira Pit",
     email |-> "jira.pit@gmail.com",
     tel_number |-> "0123456789",
     address |-> "Bangkok, Thailand",
     occupation |-> "Software Engineer",
     annual_income |-> "50000",
     num_people |-> 2,
     num_children |-> 0,
     request_timestamp |-> 30,
     adoption_timestamp |-> 0,
     status |-> "Pending",
     country |-> "Thailand"]

NonPrajogo ==
    [JiraPit EXCEPT !.name = "Non Prajogo", !.status = "Approved",
                    !.adoption_timestamp = 40, !.country = "Indonesia"]

RequestValues == {JiraPit, NonPrajogo}

\* ids given to insert: empty, white space only, numeric, not numeric
AnimalIdInputs == {Str0, StrBlank, StrA1}
RequestIdInputs == {Str0, StrR1}

\* animal ids a request may name: rows that may exist and one that never does
AnimalRefInputs == {Str1, StrA1, StrNonexistent}

AnimalInputs == {[v EXCEPT !.id = id] : v \in AnimalValues, id \in AnimalIdInputs}

RequestInputs ==
    {[v EXCEPT !.id = id, !.animal_id = a] :
        v \in RequestValues, id \in RequestIdInputs, a \in AnimalRefInputs}

\* ids given to update, delete and the queries by id: those of the rows, and
\* one that no row has
AnimalIdsToTry == Ids(animals) \cup {StrNonexistent}
RequestIdsToTry == Ids(adoption_requests) \cup {StrNonexistent}

--------------------------------------------------------------------------
(* State machine of the store *)

\* what a call leaves behind: its name, the id it was given, and its result
Call(op, given, out, found, rows) ==
    [op |-> op, given |-> given, ok |-> out.ok, cause |-> out.cause, id |-> out.id,
     changed |-> out.changed, found |-> found, rows |-> rows]

NoCall ==
    [op |-> "new", given |-> Str0, ok |-> TRUE, cause |-> "", id |-> Str0,
     changed |-> FALSE, found |-> None, rows |-> <<>>]

IsBlank(id) == Trim(id) = <<>>

\* history of a table: n blank-id inserts in a row since it was empty
RunAfterInsert(run, given, out) ==
    IF ~out.ok THEN run
    ELSE IF IsBlank(given) /\ run >= 0 THEN run + 1
    ELSE -1

RunAfterDelete(run, out) ==
    IF ~out.changed THEN run ELSE IF Len(out.table) = 0 THEN 0 ELSE -1

NoQuery == [filters |-> None, now |-> 0]

\* AuthenticationService::new on a fresh database: no user, nobody logged in
NoAuthCall ==
    [op |-> "new", username |-> Str0, ok |-> TRUE, cause |-> "", result |-> "",
     user |-> None, after_sign_up |-> FALSE]

AuthInit ==
    /\ user_authentication = <<>>
    /\ current_user = None
    /\ auth_last = NoAuthCall
    /\ signed_up = <<>>

\* the directory the file service is rooted at (app_data_dir), and a directory
\* next to it
Root == <<"app_data">>
Outside == <<"outside_test_dir">>

\* a file or a symbolic link: link is None, or Some(path the link names)
FileEntry(path, link) == [path |-> path, link |-> link]

\* the files present when the application starts: an upload of an earlier
\* run, a file outside the root, a link in the root to the file outside and a
\* link outside to the file in the root
InitFiles ==
    {FileEntry(Root \o <<"1700000000000.jpg">>, None),
     FileEntry(Outside \o <<"outside_file.txt">>, None),
     FileEntry(Root \o <<"link_out">>, Some(Outside \o <<"outside_file.txt">>)),
     FileEntry(Outside \o <<"link_in">>, Some(Root \o <<"1700000000000.jpg">>))}

NoCommand == [name |-> "", arg |-> <<>>]

\* an invocation before its command is dispatched
NoInvocation == [command |-> NoCommand, pc |-> "idle", max_id |-> 0, result |-> <<>>]

NoCodec == [type |-> "", value |-> "", text |-> "", read |-> "", stage |-> "none"]

\* AppState::default(): no service is built, nothing is locked
\* AppState::default(): no service is built, no command runs
ServicesInit ==
    /\ app_state = [file_service |-> FALSE, database_service |-> FALSE,
                    authentication_service |-> FALSE]
    /\ constructed = [file_service |-> 0, database_service |-> 0,
                      authentication_service |-> 0]
    /\ state_guard = 0
    /\ invocations = <<>>
    /\ files = InitFiles

AppInit ==
    /\ ServicesInit
    /\ codec = NoCodec

Init ==
    /\ animals = <<>>
    /\ adoption_requests = <<>>
    /\ last = NoCall
    /\ pending = NoQuery
    /\ animal_run = 0
    /\ request_run = 0
    /\ AuthInit
    /\ AppInit

insert_animal(animal) ==
    LET out == InsertAnimalOutcome(animals, animal)
    IN  /\ animals' = out.table
        /\ last' = Call("insert_animal", animal.id, out, None, <<>>)
        /\ animal_run' = RunAfterInsert(animal_run, animal.id, out)
        /\ UNCHANGED <<adoption_requests, pending, request_run, auth_vars, app_vars>>

update_animal(animal) ==
    LET out == UpdateAnimalOutcome(animals, animal)
    IN  /\ animals' = out.table
        /\ last' = Call("update_animal", animal.id, out, None, <<>>)
        /\ UNCHANGED <<adoption_requests, pending, animal_run, request_run, auth_vars, app_vars>>

delete_animal(animal_id) ==
    LET out == DeleteAnimalOutcome(animals, adoption_requests, animal_id)
    IN  /\ animals' = out.table
        /\ last' = Call("delete_animal", animal_id, out, None, <<>>)
        /\ animal_run' = RunAfterDelete(animal_run, out)
        /\ UNCHANGED <<adoption_requests, pending, request_run, auth_vars, app_vars>>

query_animal_by_id(animal_id) ==
    LET out == Outcome(TRUE, "", animals, animal_id, FALSE)
    IN  /\ last' = Call("query_animal_by_id", animal_id, out,
                        QueryAnimalById(animals, animal_id), <<>>)
        /\ UNCHANGED <<animals, adoption_requests, pending, animal_run, request_run, auth_vars, app_vars>>

insert_adoption_request(request) ==
    LET out == InsertRequestOutcome(adoption_requests, animals, request)
    IN  /\ adoption_requests' = out.table
        /\ last' = Call("insert_adoption_request", request.id, out, None, <<>>)
        /\ request_run' = RunAfterInsert(request_run, request.id, out)
        /\ UNCHANGED <<animals, pending, animal_run, auth_vars, app_vars>>

update_adoption_request(request) ==
    LET out == UpdateRequestOutcome(adoption_requests, animals, request)
    IN  /\ adoption_requests' = out.table
        /\ last' = Call("update_adoption_request", request.id, out, None, <<>>)
        /\ UNCHANGED <<animals, pending, animal_run, request_run, auth_vars, app_vars>>

delete_adoption_request(request_id) ==
    LET out == DeleteRequestOutcome(adoption_requests, request_id)
    IN  /\ adoption_requests' = out.table
        /\ last' = Call("delete_adoption_request", request_id, out, None, <<>>)
        /\ request_run' = RunAfterDelete(request_run, out)
        /\ UNCHANGED <<animals, pending, animal_run, auth_vars, app_vars>>

query_adoption_request_by_id(request_id) ==
    LET out == Outcome(TRUE, "", adoption_requests, request_id, FALSE)
    IN  /\ last' = Call("query_adoption_request_by_id", request_id, out,
                        QueryRequestById(adoption_requests, request_id), <<>>)
        /\ UNCHANGED <<animals, adoption_requests, pending, animal_run, request_run, auth_vars, app_vars>>

query_adoption_requests_by_animal_id(animal_id) ==
    LET out == Outcome(TRUE, "", adoption_requests, animal_id, FALSE)
    IN  /\ last' = Call("query_adoption_requests_by_animal_id", animal_id, out, None,
                        QueryRequestsByAnimalId(adoption_requests, animal_id))
        /\ UNCHANGED <<animals, adoption_requests, pending, animal_run, request_run, auth_vars, app_vars>>

\* the tables of this model hold at most MaxAnimals and MaxRequests rows, and
\* no generated id exceeds MaxId
InsertAnimalStep ==
    \E a \in AnimalInputs :
        /\ Len(InsertAnimalOutcome(animals, a).table) <= MaxAnimals
        /\ CastInteger(InsertId(animals, a.id)) <= MaxId
        /\ insert_animal(a)

UpdateAnimalStep ==
    \E v \in AnimalValues, id \in AnimalIdsToTry : update_animal([v EXCEPT !.id = id])

DeleteAnimalStep == \E id \in AnimalIdsToTry : delete_animal(id)

QueryAnimalByIdStep == \E id \in AnimalIdsToTry : query_animal_by_id(id)

InsertRequestStep ==
    \E r \in RequestInputs :
        /\ Len(InsertRequestOutcome(adoption_requests, animals, r).table) <= MaxRequests
        /\ CastInteger(InsertId(adoption_requests, r.id)) <= MaxId
        /\ insert_adoption_request(r)

UpdateRequestStep ==
    \E v \in RequestValues, id \in RequestIdsToTry, a \in AnimalRefInputs :
        update_adoption_request([v EXCEPT !.id = id, !.animal_id = a])

DeleteRequestStep == \E id \in RequestIdsToTry : delete_adoption_request(id)

QueryRequestByIdStep == \E id \in RequestIdsToTry : query_adoption_request_by_id(id)

QueryRequestsByAnimalIdStep ==
    \E id \in AnimalRefInputs : query_adoption_requests_by_animal_id(id)

Next ==
    \/ InsertAnimalStep
    \/ UpdateAnimalStep
    \/ DeleteAnimalStep
    \/ QueryAnimalByIdStep
    \/ InsertRequestStep
    \/ UpdateRequestStep
    \/ DeleteRequestStep
    \/ QueryRequestByIdStep
    \/ QueryRequestsByAnimalIdStep

Spec == Init /\ [][Next]_vars

--------------------------------------------------------------------------
(* Dates (chrono): a NaiveDate is [year, month, day]; instants are seconds
   since 1970-01-01T00:00:00Z *)

SecondsPerDay == 86400

\* days since 1970-01-01 of a date of the proleptic Gregorian calendar
DaysFromCivil(date) ==
    LET y == IF date.month <= 2 THEN date.year - 1 ELSE date.year
        era == y \div 400
        yoe == y - era * 400
        mp == (date.month + 9) % 12
        doy == (153 * mp + 2) \div 5 + date.day - 1
        doe == yoe * 365 + yoe \div 4 - yoe \div 100 + doy
    IN  era * 146097 + doe - 719468

\* the date that is the given number of days after 1970-01-01
CivilFromDays(days) ==
    LET z == days + 719468
        era == z \div 146097
        doe == z - era * 146097
        yoe == (doe - doe \div 1460 + doe \div 36524 - doe \div 146096) \div 365
        doy == doe - (365 * yoe + yoe \div 4 - yoe \div 100)
        mp == (5 * doy + 2) \div 153
        d == doy - (153 * mp + 2) \div 5 + 1
        m == IF mp < 10 THEN mp + 3 ELSE mp - 9
        y == yoe + era * 400
    IN  [year |-> IF m <= 2 THEN y + 1 ELSE y, month |-> m, day |-> d]

\* DateTime<Utc>::date_naive
DateNaive(now) == CivilFromDays(now \div SecondsPerDay)

\* Datelike::weekday().num_days_from_monday(): 1970-01-01 was a Thursday
NumDaysFromSunday(date) == (DaysFromCivil(date) + 4) % 7

NumDaysFromMonday(date) == (DaysFromCivil(date) + 3) % 7

\* NaiveDate::checked_sub_signed(Duration::days(n))
SubDays(date, n) == CivilFromDays(DaysFromCivil(date) - n)

\* Datelike::with_day(1), Datelike::with_ordinal(1)
WithDay1(date) == [date EXCEPT !.day = 1]
WithOrdinal1(date) == [date EXCEPT !.month = 1, !.day = 1]

\* and_hms_opt(0, 0, 0).unwrap().and_utc().timestamp()
MidnightTimestamp(date) == DaysFromCivil(date) * SecondsPerDay

PeriodTokens == {"today", "this_week", "this_month", "this_year"}

\* a variant of the match whose week starts on Sunday
StartOfPeriodSundayWeek(date_option, now) ==
    CASE date_option = "today" -> MidnightTimestamp(DateNaive(now))
      [] date_option = "this_week" ->
            MidnightTimestamp(SubDays(DateNaive(now), NumDaysFromSunday(DateNaive(now))))
      [] date_option = "this_month" -> MidnightTimestamp(WithDay1(DateNaive(now)))
      [] date_option = "this_year" -> MidnightTimestamp(WithOrdinal1(DateNaive(now)))

\* a variant whose week is the seven days that end today
StartOfPeriodRollingWeek(date_option, now) ==
    CASE date_option = "today" -> MidnightTimestamp(DateNaive(now))
      [] date_option = "this_week" -> MidnightTimestamp(SubDays(DateNaive(now), 6))
      [] date_option = "this_month" -> MidnightTimestamp(WithDay1(DateNaive(now)))
      [] date_option = "this_year" -> MidnightTimestamp(WithOrdinal1(DateNaive(now)))

\* the match on date_option in query_animals, for the four tokens it names
StartOfPeriod(date_option, now) ==
    CASE date_option = "today" -> MidnightTimestamp(DateNaive(now))
      [] date_option = "this_week" ->
            MidnightTimestamp(SubDays(DateNaive(now), NumDaysFromMonday(DateNaive(now))))
      [] date_option = "this_month" -> MidnightTimestamp(WithDay1(DateNaive(now)))
      [] date_option = "this_year" -> MidnightTimestamp(WithOrdinal1(DateNaive(now)))

--------------------------------------------------------------------------
(* query_animals: the filter map and the predicate built from it.

   A HashMap is the sequence of its entries in the order the loop meets them,
   keys distinct; any order can occur.  A FilterValue is
   [shape, one, many, nested]: ChooseOne(one), ChooseMany(many) or
   NestedChooseMany(nested), nested being the entries [specie, breeds] of the
   inner map.  A where clause is [kind, groups]: the text fragment it stands
   for and the number of placeholders in each of its parenthesised lists. *)

ChooseOne(token) ==
    [shape |-> "ChooseOne", one |-> token, many |-> <<>>, nested |-> <<>>]
ChooseMany(values) ==
    [shape |-> "ChooseMany", one |-> "", many |-> values, nested |-> <<>>]
NestedChooseMany(entries) ==
    [shape |-> "NestedChooseMany", one |-> "", many |-> <<>>, nested |-> entries]

Entry(criteria, value_option) == [criteria |-> criteria, value |-> value_option]

Clause(kind, groups) == [kind |-> kind, groups |-> groups]

Built(where_clauses, params) == [where_clauses |-> where_clauses, params |-> params]

\* values as rusqlite binds them
TextValue(t) == [type |-> "Text", text |-> t, integer |-> 0]
IntegerValue(n) == [type |-> "Integer", text |-> "", integer |-> n]

TextValues(values) == [i \in 1..Len(values) |-> TextValue(values[i])]

\* a variant that takes an empty list for no filter
InListArmEmptyIsNoFilter(built, column, value) ==
    IF value.shape # "ChooseMany" THEN built
    ELSE IF value.many = <<>> THEN built
    ELSE Built(Append(built.where_clauses, Clause(column, <<Len(value.many)>>)),
               built.params \o TextValues(value.many))

\* a variant whose `if let` has an else that pushes "1=0"
InListArmOtherShapeMatchesNothing(built, column, value) ==
    IF value.shape # "ChooseMany"
    THEN Built(Append(built.where_clauses, Clause("1=0", <<>>)), built.params)
    ELSE IF value.many = <<>>
    THEN Built(Append(built.where_clauses, Clause("1=0", <<>>)), built.params)
    ELSE Built(Append(built.where_clauses, Clause(column, <<Len(value.many)>>)),
               built.params \o TextValues(value.many))

\* FilterCriteria::Status and FilterCriteria::Sex arms
InListArm(built, column, value) ==
    IF value.shape # "ChooseMany" THEN built
    ELSE IF value.many = <<>>
    THEN Built(Append(built.where_clauses, Clause("1=0", <<>>)), built.params)
    ELSE Built(Append(built.where_clauses, Clause(column, <<Len(value.many)>>)),
               built.params \o TextValues(value.many))

\* a variant that pushes the breeds before the specie
RECURSIVE SpeciesLoopBreedsFirst(_, _, _)
SpeciesLoopBreedsFirst(entries, species_clauses, params) ==
    IF entries = <<>> THEN [species_clauses |-> species_clauses, params |-> params]
    ELSE LET e == Head(entries)
         IN  IF e.breeds # <<>>
             THEN SpeciesLoopBreedsFirst(Tail(entries),
                              Append(species_clauses, Len(e.breeds)),
                              params \o TextValues(e.breeds) \o <<TextValue(e.specie)>>)
             ELSE SpeciesLoopBreedsFirst(Tail(entries), species_clauses, params)

\* the loop over species_map: one "(specie = ? AND breed IN (...))" and its
\* parameters for each species whose breed list is not empty
RECURSIVE SpeciesLoop(_, _, _)
SpeciesLoop(entries, species_clauses, params) ==
    IF entries = <<>> THEN [species_clauses |-> species_clauses, params |-> params]
    ELSE LET e == Head(entries)
         IN  IF e.breeds # <<>>
             THEN SpeciesLoop(Tail(entries),
                              Append(species_clauses, Len(e.breeds)),
                              params \o <<TextValue(e.specie)>> \o TextValues(e.breeds))
             ELSE SpeciesLoop(Tail(entries), species_clauses, params)

\* a variant that pushes no clause when every breed list is empty
SpeciesArmEmptyIsNoFilter(built, value) ==
    IF value.shape # "NestedChooseMany" THEN built
    ELSE IF value.nested = <<>>
    THEN Built(Append(built.where_clauses, Clause("1=0", <<>>)), built.params)
    ELSE LET loop == SpeciesLoop(value.nested, <<>>, built.params)
         IN  IF loop.species_clauses = <<>>
             THEN Built(built.where_clauses, loop.params)
             ELSE Built(Append(built.where_clauses,
                               Clause("species", loop.species_clauses)),
                        loop.params)

\* FilterCriteria::SpeciesAndBreeds arm
SpeciesArm(built, value) ==
    IF value.shape # "NestedChooseMany" THEN built
    ELSE IF value.nested = <<>>
    THEN Built(Append(built.where_clauses, Clause("1=0", <<>>)), built.params)
    ELSE LET loop == SpeciesLoop(value.nested, <<>>, built.params)
         IN  IF loop.species_clauses = <<>>
             THEN Built(Append(built.where_clauses, Clause("1=0", <<>>)), loop.params)
             ELSE Built(Append(built.where_clauses,
                               Clause("species", loop.species_clauses)),
                        loop.params)

\* a variant whose match ends in `_ => "1=0"`: an unknown token matches nothing
DateArmUnknownMatchesNothing(built, kind, value, now) ==
    IF value.shape # "ChooseOne" THEN built
    ELSE IF value.one = "all_time" THEN built
    ELSE IF value.one \notin PeriodTokens
    THEN Built(Append(built.where_clauses, Clause("1=0", <<>>)), built.params)
    ELSE Built(Append(built.where_clauses, Clause(kind, <<1>>)),
               Append(built.params, IntegerValue(StartOfPeriod(value.one, now))))

\* FilterCriteria::AdmissionDate and FilterCriteria::AdoptionDate arms
DateArm(built, kind, value, now) ==
    IF value.shape # "ChooseOne" THEN built
    ELSE IF value.one = "all_time" THEN built
    ELSE IF value.one \notin PeriodTokens THEN built
    ELSE Built(Append(built.where_clauses, Clause(kind, <<1>>)),
               Append(built.params, IntegerValue(StartOfPeriod(value.one, now))))

\* one turn of the loop over filters_map
FilterArm(built, entry, now) ==
    IF entry.value = None THEN built
    ELSE LET value == entry.value[1]
         IN  CASE entry.criteria = "Status" -> InListArm(built, "status", value)
               [] entry.criteria = "Sex" -> InListArm(built, "sex", value)
               [] entry.criteria = "SpeciesAndBreeds" -> SpeciesArm(built, value)
               [] entry.criteria = "AdmissionDate" ->
                      DateArm(built, "admission", value, now)
               [] entry.criteria = "AdoptionDate" ->
                      DateArm(built, "adoption", value, now)

RECURSIVE FilterLoop(_, _, _)
FilterLoop(entries, built, now) ==
    IF entries = <<>> THEN built
    ELSE FilterLoop(Tail(entries), FilterArm(built, Head(entries), now), now)

\* the where clauses and parameters query_animals builds; filters is
\* None or Some(map)
BuildQuery(filters, now) ==
    IF filters = None THEN Built(<<>>, <<>>)
    ELSE FilterLoop(filters[1], Built(<<>>, <<>>), now)


\* the text of the statement, as the sequence of the pieces format! and join
\* put together: fixed fragments and "?" placeholders

\* n placeholders joined by ","
RECURSIVE JoinedPlaceholders(_)
JoinedPlaceholders(n) ==
    IF n = 0 THEN <<>>
    ELSE IF n = 1 THEN <<"?">>
    ELSE <<"?", ",">> \o JoinedPlaceholders(n - 1)

\* species_clauses.join(" OR ")
RECURSIVE SpeciesText(_)
SpeciesText(groups) ==
    IF groups = <<>> THEN <<>>
    ELSE <<"(specie = ", "?", " AND breed IN (">> \o JoinedPlaceholders(Head(groups))
             \o <<"))">>
             \o (IF Tail(groups) = <<>> THEN <<>> ELSE <<" OR ">> \o SpeciesText(Tail(groups)))

ClauseText(clause) ==
    CASE clause.kind = "1=0" -> <<"1=0">>
      [] clause.kind = "status" ->
            <<"status IN (">> \o JoinedPlaceholders(clause.groups[1]) \o <<")">>
      [] clause.kind = "sex" ->
            <<"sex IN (">> \o JoinedPlaceholders(clause.groups[1]) \o <<")">>
      [] clause.kind = "species" -> <<"(">> \o SpeciesText(clause.groups) \o <<")">>
      [] clause.kind = "admission" -> <<"admission_timestamp >= ", "?">>
      [] clause.kind = "adoption" ->
            <<"EXISTS (SELECT 1 FROM adoption_requests ar WHERE ar.animal_id = animals.id AND ar.status = 'approved' AND ar.adoption_timestamp >= ",
              "?", ")">>

\* where_clauses.join(" AND ")
RECURSIVE WhereText(_)
WhereText(where_clauses) ==
    IF where_clauses = <<>> THEN <<>>
    ELSE ClauseText(Head(where_clauses))
             \o (IF Tail(where_clauses) = <<>> THEN <<>>
                 ELSE <<" AND ">> \o WhereText(Tail(where_clauses)))

\* the query string query_animals prepares
QueryText(built) ==
    <<"SELECT id, name, specie, breed, sex, admission_timestamp, status, image_path FROM animals">>
        \o (IF built.where_clauses = <<>> THEN <<>>
            ELSE <<" WHERE ">> \o WhereText(built.where_clauses))

--------------------------------------------------------------------------
(* The store's evaluation of the statement query_animals prepares: the where
   clauses joined by AND, the k-th placeholder of the text bound to the k-th
   parameter *)

\* the parameters from position first, count of them
Bound(params, first, count) == SubSeq(params, first, first + count - 1)

TextIn(text, values) == \E i \in 1..Len(values) : values[i] = TextValue(text)

\* the placeholders a clause holds
Placeholders(clause) ==
    CASE clause.kind = "1=0" -> 0
      [] clause.kind = "species" ->
            LET RECURSIVE Sum(_)
                Sum(gs) == IF gs = <<>> THEN 0 ELSE 1 + Head(gs) + Sum(Tail(gs))
            IN  Sum(clause.groups)
      [] OTHER -> clause.groups[1]

\* "(specie = ? AND breed IN (?,...)) OR ...": groups gives the length of each
\* breed list, first the position of the first placeholder
RECURSIVE SpeciesHolds(_, _, _, _)
SpeciesHolds(row, groups, params, first) ==
    IF groups = <<>> THEN FALSE
    ELSE \/ /\ params[first] = TextValue(row.specie)
            /\ TextIn(row.breed, Bound(params, first + 1, Head(groups)))
         \/ SpeciesHolds(row, Tail(groups), params, first + 1 + Head(groups))

\* a variant whose subquery leaves out ar.status = 'approved'
ClauseHoldsAnyStatus(row, requests, clause, params, first) ==
    CASE clause.kind = "1=0" -> FALSE
      [] clause.kind = "status" ->
            TextIn(row.status, Bound(params, first, clause.groups[1]))
      [] clause.kind = "sex" ->
            TextIn(row.sex, Bound(params, first, clause.groups[1]))
      [] clause.kind = "species" -> SpeciesHolds(row, clause.groups, params, first)
      [] clause.kind = "admission" ->
            row.admission_timestamp >= params[first].integer
      [] clause.kind = "adoption" ->
            \E i \in 1..Len(requests) :
                /\ requests[i].animal_id = row.id
                /\ requests[i].adoption_timestamp >= params[first].integer

ClauseHolds(row, requests, clause, params, first) ==
    CASE clause.kind = "1=0" -> FALSE
      [] clause.kind = "status" ->
            TextIn(row.status, Bound(params, first, clause.groups[1]))
      [] clause.kind = "sex" ->
            TextIn(row.sex, Bound(params, first, clause.groups[1]))
      [] clause.kind = "species" -> SpeciesHolds(row, clause.groups, params, first)
      [] clause.kind = "admission" ->
            row.admission_timestamp >= params[first].integer
      [] clause.kind = "adoption" ->
            \E i \in 1..Len(requests) :
                /\ requests[i].animal_id = row.id
                /\ requests[i].status = "approved"
                /\ requests[i].adoption_timestamp >= params[first].integer

\* a variant that joins the where clauses with " OR "
RECURSIVE WhereHoldsAny(_, _, _, _, _)
WhereHoldsAny(row, requests, where_clauses, params, first) ==
    IF where_clauses = <<>> THEN TRUE
    ELSE \/ /\ ClauseHolds(row, requests, Head(where_clauses), params, first)
            /\ Tail(where_clauses) = <<>>
         \/ /\ Tail(where_clauses) # <<>>
            /\ \/ ClauseHolds(row, requests, Head(where_clauses), params, first)
               \/ WhereHoldsAny(row, requests, Tail(where_clauses), params,
                                first + Placeholders(Head(where_clauses)))

RECURSIVE WhereHolds(_, _, _, _, _)
WhereHolds(row, requests, where_clauses, params, first) ==
    IF where_clauses = <<>> THEN TRUE
    ELSE /\ ClauseHolds(row, requests, Head(where_clauses), params, first)
         /\ WhereHolds(row, requests, Tail(where_clauses), params,
                       first + Placeholders(Head(where_clauses)))

\* the columns query_animals selects, the status parsed
RowToSummary(row) ==
    [id |-> row.id,
     name |-> row.name,
     specie |-> row.specie,
     breed |-> row.breed,
     sex |-> row.sex,
     admission_timestamp |-> row.admission_timestamp,
     status |-> AnimalStatusFromStr(row.status),
     image_path |-> row.image_path]

\* query_animals
QueryAnimals(table, requests, filters, now) ==
    LET built == BuildQuery(filters, now)
        Match(row) == WhereHolds(row, requests, built.where_clauses, built.params, 1)
        rows == SelectSeq(table, Match)
    IN  [i \in 1..Len(rows) |-> RowToSummary(rows[i])]


--------------------------------------------------------------------------
(* The shelter the queries of this model run on (test_animals_filter), with
   admission and adoption instants on both sides of the period starts.  The
   animals are admitted, and the requests made, in the order listed. *)

\* instants at which queries run: Monday 2024-01-01 00:00:00,
\* Friday 2024-03-01 12:00:00, Sunday 2024-03-03 23:59:59
Nows == {1704067200, 1709294400, 1709510399}

Shelter(id, name, specie, breed, sex, status, admitted) ==
    [Buddy EXCEPT !.id = id, !.name = name, !.specie = specie, !.breed = breed,
                  !.sex = sex, !.status = status, !.admission_timestamp = admitted]

QueryAnimalInputs ==
    <<Shelter(<<"a", "1">>, "Buddy", "Dog", "Golden Retriever", "Male", "Available", 1709424000),
     Shelter(<<"a", "2">>, "Lucy", "Cat", "Siamese", "Female", "Available", 1709423999),
     Shelter(<<"a", "3">>, "Rocky", "Dog", "German Shepherd", "Male", "Adopted", 1708905600),
     Shelter(<<"a", "4">>, "Milo", "Dog", "Labrador", "Male", "Adopted", 1708905599),
     Shelter(<<"a", "5">>, "Coco", "Cat", "Persian", "Female", "PassedAway", 1704067199),
     Shelter(<<"a", "6">>, "Rex", "Dog", "Siamese", "Female", "Requested", 1709251200),
     Shelter(<<"a", "7">>, "Max", "Cat", "Golden Retriever", "Male", "Requested", 1704067200),
     Shelter(<<"a", "8">>, "Bella", "Cat", "Siamese", "Male", "Adopted", 1709251199),
     Shelter(<<"a", "9">>, "Luna", "Dog", "Labrador", "Female", "Available", 1893456000)>>

Adoption(id, animal_id, status, adopted) ==
    [JiraPit EXCEPT !.id = id, !.animal_id = animal_id, !.status = status,
                    !.adoption_timestamp = adopted]

QueryRequestInputs ==
    <<Adoption(<<"r", "1">>, <<"a", "4">>, "Approved", 1709423999),
     Adoption(<<"r", "2">>, <<"a", "4">>, "Approved", 1709424000),
     Adoption(<<"r", "3">>, <<"a", "5">>, "Approved", 1708905599),
     Adoption(<<"r", "4">>, <<"a", "3">>, "Pending", 1709424000),
     Adoption(<<"r", "5">>, <<"a", "3">>, "Rejected", 1709510399)>>

--------------------------------------------------------------------------
(* The filter maps queries are given in this model *)

MaxCriteria == 2

Criteria == {"Status", "Sex", "SpeciesAndBreeds", "AdmissionDate", "AdoptionDate"}

Breeds(specie, breeds) == [specie |-> specie, breeds |-> breeds]

StatusLists ==
    {<<>>, <<"available">>, <<"adopted", "available">>, <<"passed-away", "passed-away">>,
     <<"Available">>}

SexLists == {<<>>, <<"Male">>, <<"Female", "Male">>}

SpeciesMaps ==
    {<<>>,
     <<Breeds("Dog", <<>>)>>,
     <<Breeds("Dog", <<>>), Breeds("Cat", <<>>)>>,
     <<Breeds("Dog", <<"Golden Retriever">>)>>,
     <<Breeds("Dog", <<"Golden Retriever">>), Breeds("Cat", <<>>)>>,
     <<Breeds("Cat", <<>>), Breeds("Dog", <<"Golden Retriever">>)>>,
     <<Breeds("Cat", <<"Siamese">>), Breeds("Dog", <<"Labrador", "Golden Retriever">>)>>,
     <<Breeds("Dog", <<"Labrador", "Golden Retriever">>), Breeds("Cat", <<"Siamese">>)>>}

DateTokens == PeriodTokens \cup {"all_time", "yesterday"}

\* the values of the shape each criterion reads
Shaped(criteria) ==
    CASE criteria = "Status" -> {ChooseMany(l) : l \in StatusLists}
      [] criteria = "Sex" -> {ChooseMany(l) : l \in SexLists}
      [] criteria = "SpeciesAndBreeds" -> {NestedChooseMany(m) : m \in SpeciesMaps}
      [] OTHER -> {ChooseOne(t) : t \in DateTokens}

\* values of another shape
Misshaped(criteria) ==
    CASE criteria = "Status" -> {ChooseOne("available"), NestedChooseMany(<<>>)}
      [] criteria = "Sex" -> {ChooseOne("Male")}
      [] criteria = "SpeciesAndBreeds" -> {ChooseMany(<<"Dog">>), ChooseOne("Dog")}
      [] OTHER -> {ChooseMany(<<"today">>), ChooseMany(<<>>)}

\* what a map of one entry may hold for a criterion
Options(criteria) ==
    {None} \cup {Some(v) : v \in Shaped(criteria) \cup Misshaped(criteria)}

\* what a map of several entries holds for a criterion
CoreOptions(criteria) ==
    CASE criteria = "Status" -> {Some(ChooseMany(<<"available">>)), Some(ChooseMany(<<>>)), None}
      [] criteria = "Sex" -> {Some(ChooseMany(<<"Male">>))}
      [] criteria = "SpeciesAndBreeds" ->
            {Some(NestedChooseMany(
                <<Breeds("Cat", <<"Siamese">>),
                  Breeds("Dog", <<"Labrador", "Golden Retriever">>)>>))}
      [] criteria = "AdmissionDate" -> {Some(ChooseOne("this_week")), Some(ChooseOne("all_time"))}
      [] criteria = "AdoptionDate" -> {Some(ChooseOne("this_month"))}

DistinctCriteria(entries) ==
    \A i, j \in 1..Len(entries) : entries[i].criteria = entries[j].criteria => i = j

\* the maps of n entries, in every iteration order
MapsOfSize(n) ==
    IF n = 0 THEN {<<>>}
    ELSE IF n = 1 THEN UNION {{<<Entry(c, v)>> : v \in Options(c)} : c \in Criteria}
    ELSE {m \in [1..n -> UNION {{Entry(c, v) : v \in CoreOptions(c)} : c \in Criteria}] :
             DistinctCriteria(m)}

FilterMaps == UNION {MapsOfSize(n) : n \in 0..MaxCriteria}

FilterInputs == {None} \cup {Some(m) : m \in FilterMaps}


--------------------------------------------------------------------------
(* State machine of the list query: a shelter is filled, and the pending
   query runs on it *)

InitQuery ==
    /\ animals = <<>>
    /\ adoption_requests = <<>>
    /\ last = NoCall
    /\ pending \in [filters : FilterInputs, now : Nows]
    /\ animal_run = 0
    /\ request_run = 0
    /\ AuthInit
    /\ AppInit

query_animals(filters, now) ==
    LET out == Outcome(TRUE, "", animals, Str0, FALSE)
    IN  /\ last' = Call("query_animals", Str0, out, None,
                        QueryAnimals(animals, adoption_requests, filters, now))
        /\ UNCHANGED <<animals, adoption_requests, pending, animal_run, request_run, auth_vars, app_vars>>

AdmitStep ==
    /\ Len(animals) < Len(QueryAnimalInputs)
    /\ insert_animal(QueryAnimalInputs[Len(animals) + 1])

RequestStep ==
    /\ Len(adoption_requests) < Len(QueryRequestInputs)
    /\ HasId(animals, QueryRequestInputs[Len(adoption_requests) + 1].animal_id)
    /\ insert_adoption_request(QueryRequestInputs[Len(adoption_requests) + 1])

QueryAnimalsStep == query_animals(pending.filters, pending.now)

NextQuery ==
    \/ AdmitStep
    \/ RequestStep
    \/ QueryAnimalsStep

SpecQuery == InitQuery /\ [][NextQuery]_vars

--------------------------------------------------------------------------
(* State machine of the list query on a shelter whose instants are counted
   back from the query time, as test_animals_filter builds it: animals
   admitted 30, 1, 60, 10, 20 and 2 days ago, requests approved 2, 15 and
   1 days ago *)

\* query times: every day of a week, at its first second, within it and at
\* its last second
RecentNows ==
    {1708905600, 1708991999, 1708992000, 1709035200, 1709078400, 1709208000,
     1709294400, 1709359200, 1709510399}

DaysAgo(now, days) == now - SecondsPerDay * days

RecentAnimalInputs(now) ==
    <<Shelter(<<"a", "1">>, "Buddy", "Dog", "Golden Retriever", "Male", "Available", DaysAgo(now, 30)),
     Shelter(<<"a", "2">>, "Lucy", "Cat", "Siamese", "Female", "Available", DaysAgo(now, 1)),
     Shelter(<<"a", "3">>, "Rocky", "Dog", "German Shepherd", "Male", "Adopted", DaysAgo(now, 60)),
     Shelter(<<"a", "4">>, "Milo", "Dog", "Labrador", "Male", "Adopted", DaysAgo(now, 10)),
     Shelter(<<"a", "5">>, "Coco", "Cat", "Persian", "Female", "Adopted", DaysAgo(now, 20)),
     Shelter(<<"a", "6">>, "Rex", "Dog", "Labrador", "Male", "Adopted", DaysAgo(now, 2))>>

RecentRequestInputs(now) ==
    <<Adoption(<<"r", "1">>, <<"a", "4">>, "Approved", DaysAgo(now, 2)),
     Adoption(<<"r", "2">>, <<"a", "5">>, "Approved", DaysAgo(now, 15)),
     Adoption(<<"r", "3">>, <<"a", "6">>, "Approved", DaysAgo(now, 1))>>

RecentFilterInputs ==
    {Some(<<Entry("AdmissionDate", Some(ChooseOne("this_week")))>>),
     Some(<<Entry("AdoptionDate", Some(ChooseOne("this_week")))>>),
     Some(<<Entry("AdoptionDate", Some(ChooseOne("today")))>>)}

InitRecent ==
    /\ animals = <<>>
    /\ adoption_requests = <<>>
    /\ last = NoCall
    /\ pending \in [filters : RecentFilterInputs, now : RecentNows]
    /\ animal_run = 0
    /\ request_run = 0
    /\ AuthInit
    /\ AppInit

RecentAdmitStep ==
    /\ Len(animals) < Len(RecentAnimalInputs(pending.now))
    /\ insert_animal(RecentAnimalInputs(pending.now)[Len(animals) + 1])

RecentRequestStep ==
    /\ Len(adoption_requests) < Len(RecentRequestInputs(pending.now))
    /\ HasId(animals, RecentRequestInputs(pending.now)[Len(adoption_requests) + 1].animal_id)
    /\ insert_adoption_request(RecentRequestInputs(pending.now)[Len(adoption_requests) + 1])

RecentQueryStep == query_animals(pending.filters, pending.now)

NextRecent ==
    \/ RecentAdmitStep
    \/ RecentRequestStep
    \/ RecentQueryStep

SpecRecent == InitRecent /\ [][NextRecent]_vars

--------------------------------------------------------------------------
(* AuthenticationService (authentication_service/mod.rs): the table
   user_authentication and the session current_user.  User names and
   passwords are sequences of one-character strings. *)

\* strum kebab-case, as ToSql writes the role and FromSql parses it
UserRoleToString(v) ==
    CASE v = "Staff" -> "staff"
      [] v = "Customer" -> "customer"

UserRoleFromStr(t) ==
    CASE t = "staff" -> "Staff"
      [] t = "customer" -> "Customer"
      [] OTHER -> "ParseError"

\* the bytes a character takes in UTF-8
Utf8Width(c) ==
    CASE c = "é" -> 2
      [] c = "€" -> 3
      [] OTHER -> 1

\* str::len(): the length in bytes
RECURSIVE ByteLen(_)
ByteLen(s) == IF s = <<>> THEN 0 ELSE Utf8Width(Head(s)) + ByteLen(Tail(s))

\* str::as_bytes(): the k-th byte of character c is <<c, k>>
RECURSIVE Utf8(_)
Utf8(s) ==
    IF s = <<>> THEN <<>>
    ELSE [k \in 1..Utf8Width(Head(s)) |-> <<Head(s), k>>] \o Utf8(Tail(s))

MinPasswordLen == 6

\* a bcrypt key is the password's bytes and a terminating zero, cut at 72 bytes
BcryptMaxBytes == 72

BcryptKey(password) ==
    LET terminated == Utf8(password) \o <<<<"NUL", 1>>>>
    IN  IF Len(terminated) > BcryptMaxBytes
        THEN SubSeq(terminated, 1, BcryptMaxBytes)
        ELSE terminated

\* bcrypt::hash(password, DEFAULT_COST) under the salt drawn for the call.  The
\* digest of a key under a salt stands for itself: no two keys share one.
Hash(password, salt) ==
    [salt |-> salt, cost |-> "DEFAULT_COST", digest |-> BcryptKey(password)]

\* bcrypt::verify(password, hash): the password hashed under the salt and cost
\* of the stored hash gives the stored hash
Verify(password, stored_hash) == Hash(password, stored_hash.salt) = stored_hash

\* get_password_hash: Some(hash) of the row of username, or None
GetPasswordHash(table, username) ==
    LET found == {i \in 1..Len(table) : table[i].username = username}
    IN  IF found = {} THEN None
        ELSE Some(table[CHOOSE i \in found : TRUE].password_hash)

\* get_user_role: Some(role) of the row of username, or None
GetUserRole(table, username) ==
    LET found == {i \in 1..Len(table) : table[i].username = username}
    IN  IF found = {} THEN None
        ELSE Some(UserRoleFromStr(table[CHOOSE i \in found : TRUE].role))

\* a variant that writes INSERT OR REPLACE
InsertUserOrReplace(table, user_auth) ==
    LET row == [user_auth EXCEPT !.role = UserRoleToString(user_auth.role)]
        found == {i \in 1..Len(table) : table[i].username = user_auth.username}
    IN  IF found # {}
        THEN [ok |-> TRUE, table |-> [table EXCEPT ![CHOOSE i \in found : TRUE] = row]]
        ELSE [ok |-> TRUE, table |-> Append(table, row)]

\* insert_user: username TEXT PRIMARY KEY rejects a name that a row has
InsertUser(table, user_auth) ==
    LET row == [user_auth EXCEPT !.role = UserRoleToString(user_auth.role)]
        found == {i \in 1..Len(table) : table[i].username = user_auth.username}
    IN  IF found # {}
        THEN [ok |-> FALSE, table |-> table]
        ELSE [ok |-> TRUE, table |-> Append(table, row)]

\* a variant that leaves current_user alone
SignUpWithoutLogIn(table, session, username, password, role, salt) ==
    IF Trim(username) = <<>>
    THEN [ok |-> FALSE, cause |-> "Username cannot be empty",
          table |-> table, session |-> session]
    ELSE IF ByteLen(password) < MinPasswordLen
    THEN [ok |-> FALSE, cause |-> "Password must be at least 6 characters long",
          table |-> table, session |-> session]
    ELSE LET inserted ==
                 InsertUser(table, [username |-> username,
                                    password_hash |-> Hash(password, salt),
                                    role |-> role])
         IN  IF ~inserted.ok
             THEN [ok |-> FALSE, cause |-> "Failed to create user account",
                   table |-> table, session |-> session]
             ELSE [ok |-> TRUE, cause |-> "", table |-> inserted.table,
                   session |-> session]

\* a variant that assigns current_user before the password is checked
SignUpSessionFirst(table, session, username, password, role, salt) ==
    IF Trim(username) = <<>>
    THEN [ok |-> FALSE, cause |-> "Username cannot be empty",
          table |-> table, session |-> session]
    ELSE IF ByteLen(password) < MinPasswordLen
    THEN [ok |-> FALSE, cause |-> "Password must be at least 6 characters long",
          table |-> table, session |-> Some(username)]
    ELSE LET inserted ==
                 InsertUser(table, [username |-> username,
                                    password_hash |-> Hash(password, salt),
                                    role |-> role])
         IN  IF ~inserted.ok
             THEN [ok |-> FALSE, cause |-> "Failed to create user account",
                   table |-> table, session |-> session]
             ELSE [ok |-> TRUE, cause |-> "", table |-> inserted.table,
                   session |-> Some(username)]

\* sign_up
SignUp(table, session, username, password, role, salt) ==
    IF Trim(username) = <<>>
    THEN [ok |-> FALSE, cause |-> "Username cannot be empty",
          table |-> table, session |-> session]
    ELSE IF ByteLen(password) < MinPasswordLen
    THEN [ok |-> FALSE, cause |-> "Password must be at least 6 characters long",
          table |-> table, session |-> session]
    ELSE LET inserted ==
                 InsertUser(table, [username |-> username,
                                    password_hash |-> Hash(password, salt),
                                    role |-> role])
         IN  IF ~inserted.ok
             THEN [ok |-> FALSE, cause |-> "Failed to create user account",
                   table |-> table, session |-> session]
             ELSE [ok |-> TRUE, cause |-> "", table |-> inserted.table,
                   session |-> Some(username)]

\* a variant that logs the user out when the password is wrong
LogInClearsSession(table, session, username, password) ==
    IF GetPasswordHash(table, username) = None
    THEN [result |-> "UserNotFound", session |-> session]
    ELSE IF Verify(password, GetPasswordHash(table, username)[1])
    THEN [result |-> "Success", session |-> Some(username)]
    ELSE [result |-> "InvalidPassword", session |-> None]

\* log_in
LogIn(table, session, username, password) ==
    IF GetPasswordHash(table, username) = None
    THEN [result |-> "UserNotFound", session |-> session]
    ELSE IF Verify(password, GetPasswordHash(table, username)[1])
    THEN [result |-> "Success", session |-> Some(username)]
    ELSE [result |-> "InvalidPassword", session |-> session]

\* a variant that takes a session without a row for no session
GetCurrentUserLenient(table, session) ==
    IF session = None THEN [ok |-> TRUE, user |-> None]
    ELSE IF GetUserRole(table, session[1]) = None
    THEN [ok |-> TRUE, user |-> None]
    ELSE [ok |-> TRUE,
          user |-> Some([username |-> session[1],
                         role |-> GetUserRole(table, session[1])[1]])]

\* get_current_user
GetCurrentUser(table, session) ==
    IF session = None THEN [ok |-> TRUE, user |-> None]
    ELSE IF GetUserRole(table, session[1]) = None
    THEN [ok |-> FALSE, user |-> None]
    ELSE [ok |-> TRUE,
          user |-> Some([username |-> session[1],
                         role |-> GetUserRole(table, session[1])[1]])]

--------------------------------------------------------------------------
(* The values callers pass to the authentication service in this model
   (authentication_service/test.rs) *)

RECURSIVE Repeat(_, _)
Repeat(c, n) == IF n = 0 THEN <<>> ELSE <<c>> \o Repeat(c, n - 1)

NameBob == <<"b", "o", "b">>
NameAl == <<"a", "l">>

\* "12345", "123456", "654321", three two-byte characters, and two passwords
\* of 73 bytes that differ in the last one
Pass5 == <<"1", "2", "3", "4", "5">>
Pass6 == <<"1", "2", "3", "4", "5", "6">>
PassWrong == <<"6", "5", "4", "3", "2", "1">>
PassAccents == <<"é", "é", "é">>
PassLongX == Repeat("€", BcryptMaxBytes \div Utf8Width("€")) \o <<"x">>
PassLongY == Repeat("€", BcryptMaxBytes \div Utf8Width("€")) \o <<"y">>

\* the registrations callers attempt: <<username, password, role>>
SignUpInputs ==
    {<<<<>>, Pass6, "Customer">>,
     <<<<>>, Pass5, "Staff">>,
     <<<<" ", " ", " ">>, Pass6, "Customer">>,
     <<NameBob, Pass5, "Customer">>,
     <<NameBob, Pass6, "Customer">>,
     <<NameBob, PassAccents, "Staff">>,
     <<NameBob, PassLongX, "Staff">>,
     <<NameAl, Pass6, "Staff">>,
     <<NameAl, PassLongX, "Customer">>}

--------------------------------------------------------------------------
(* State machine of the authentication service.  signed_up keeps, for every
   stored row and in the order of the rows, what its sign_up was given. *)

sign_up(username, password, role, salt) ==
    LET out == SignUp(user_authentication, current_user, username, password, role, salt)
    IN  /\ user_authentication' = out.table
        /\ current_user' = out.session
        /\ auth_last' = [NoAuthCall EXCEPT !.op = "sign_up", !.username = username,
                                           !.ok = out.ok, !.cause = out.cause]
        /\ signed_up' = IF out.ok
                        THEN Append(signed_up, [username |-> username,
                                                password |-> password, role |-> role])
                        ELSE signed_up
        /\ UNCHANGED <<db_vars, app_vars>>

log_in(username, password) ==
    LET out == LogIn(user_authentication, current_user, username, password)
    IN  /\ current_user' = out.session
        /\ auth_last' = [NoAuthCall EXCEPT !.op = "log_in", !.username = username,
                                           !.result = out.result,
                                           !.after_sign_up =
                                               /\ auth_last.op = "sign_up"
                                               /\ auth_last.ok
                                               /\ auth_last.username = username]
        /\ UNCHANGED <<user_authentication, signed_up, db_vars, app_vars>>

get_current_user ==
    LET out == GetCurrentUser(user_authentication, current_user)
    IN  /\ auth_last' = [NoAuthCall EXCEPT !.op = "get_current_user", !.ok = out.ok,
                                           !.cause = IF out.ok THEN ""
                                                     ELSE "Current user not found in database",
                                           !.user = out.user]
        /\ UNCHANGED <<user_authentication, current_user, signed_up, db_vars, app_vars>>

\* a variant that clears nothing
LogOutKeepsSession ==
    /\ current_user' = current_user
    /\ auth_last' = [NoAuthCall EXCEPT !.op = "log_out"]
    /\ UNCHANGED <<user_authentication, signed_up, db_vars, app_vars>>

log_out ==
    /\ current_user' = None
    /\ auth_last' = [NoAuthCall EXCEPT !.op = "log_out"]
    /\ UNCHANGED <<user_authentication, signed_up, db_vars, app_vars>>

\* AuthenticationService::new on the database the last run left: the session
\* starts empty, the table is as it was
authentication_new ==
    /\ current_user' = None
    /\ auth_last' = NoAuthCall
    /\ UNCHANGED <<user_authentication, signed_up, db_vars, app_vars>>

NextAuth ==
    \/ \E input \in SignUpInputs, salt \in {"salt1", "salt2"} :
           sign_up(input[1], input[2], input[3], salt)
    \/ \E username \in {NameBob, NameAl},
          password \in {Pass6, PassWrong, PassAccents, PassLongX, PassLongY} :
           log_in(username, password)
    \/ get_current_user
    \/ log_out
    \/ authentication_new

SpecAuth == Init /\ [][NextAuth]_vars

\* The row of a user is deleted from the store by an administrator, outside
\* the service: the session of the running service is not told.
delete_user(username) ==
    /\ GetUserRole(user_authentication, username) # None
    /\ user_authentication' =
           SelectSeq(user_authentication, LAMBDA row : row.username # username)
    /\ signed_up' = SelectSeq(signed_up, LAMBDA row : row.username # username)
    /\ auth_last' = [NoAuthCall EXCEPT !.op = "delete_user", !.username = username]
    /\ UNCHANGED <<current_user, db_vars, app_vars>>

NextAuthAdmin ==
    \/ NextAuth
    \/ \E username \in {NameBob, NameAl} : delete_user(username)

SpecAuthAdmin == Init /\ [][NextAuthAdmin]_vars


--------------------------------------------------------------------------
(* The enums in the store (database_service/types.rs and
   authentication_service/types.rs): to_sql writes a value as the text of
   to_string(), column_result reads a text with parse(). *)

UserRole == {"Staff", "Customer"}

EnumTypes == {"AnimalStatus", "RequestStatus", "UserRole"}

Variants(type) ==
    CASE type = "AnimalStatus" -> AnimalStatus
      [] type = "RequestStatus" -> RequestStatus
      [] type = "UserRole" -> UserRole

ToSql(type, value) ==
    CASE type = "AnimalStatus" -> AnimalStatusToString(value)
      [] type = "RequestStatus" -> RequestStatusToString(value)
      [] type = "UserRole" -> UserRoleToString(value)

\* a variant of column_result that falls back on the first variant
FromSqlDefaulting(type, text) ==
    CASE type = "AnimalStatus" ->
             IF AnimalStatusFromStr(text) = "ParseError" THEN "Available"
             ELSE AnimalStatusFromStr(text)
      [] type = "RequestStatus" ->
             IF RequestStatusFromStr(text) = "ParseError" THEN "Pending"
             ELSE RequestStatusFromStr(text)
      [] type = "UserRole" ->
             IF UserRoleFromStr(text) = "ParseError" THEN "Staff"
             ELSE UserRoleFromStr(text)

\* column_result: the variant parse() gives, or the error
\* FromSqlError::Other(InvalidData), written "ParseError"
FromSql(type, text) ==
    CASE type = "AnimalStatus" -> AnimalStatusFromStr(text)
      [] type = "RequestStatus" -> RequestStatusFromStr(text)
      [] type = "UserRole" -> UserRoleFromStr(text)

\* texts a column can hold that no statement of the program wrote
ForeignTexts ==
    {"", "Available", "AVAILABLE", "passed_away", "PassedAway", "passedaway",
     "passed-away ", "Approved", "Staff", "unknown"}

StoredTexts ==
    ForeignTexts \cup {ToSql(type, value) : <<type, value>> \in
                           {<<t, v>> \in EnumTypes \X (AnimalStatus \cup RequestStatus \cup UserRole) :
                                v \in Variants(t)}}

\* a value about to be written, or a text found in the store
CodecInputs ==
    {[NoCodec EXCEPT !.type = tv[1], !.value = tv[2], !.stage = "value"] :
         tv \in {<<t, v>> \in EnumTypes \X (AnimalStatus \cup RequestStatus \cup UserRole) :
                     v \in Variants(t)}}
        \cup {[NoCodec EXCEPT !.type = type, !.text = text, !.stage = "stored"] :
                  type \in EnumTypes, text \in StoredTexts}

InitCodec ==
    /\ animals = <<>>
    /\ adoption_requests = <<>>
    /\ last = NoCall
    /\ pending = NoQuery
    /\ animal_run = 0
    /\ request_run = 0
    /\ AuthInit
    /\ ServicesInit
    /\ codec \in CodecInputs

to_sql ==
    /\ codec.stage = "value"
    /\ codec' = [codec EXCEPT !.text = ToSql(codec.type, codec.value),
                              !.stage = "stored"]
    /\ UNCHANGED <<db_vars, auth_vars, app_state, constructed, state_guard,
                   invocations, files>>

column_result ==
    /\ codec.stage = "stored"
    /\ codec' = [codec EXCEPT !.read = FromSql(codec.type, codec.text),
                              !.stage = "read"]
    /\ UNCHANGED <<db_vars, auth_vars, app_state, constructed, state_guard,
                   invocations, files>>

NextCodec == to_sql \/ column_result

SpecCodec == InitCodec /\ [][NextCodec]_vars

--------------------------------------------------------------------------
(* FileService (file_service/mod.rs).  A path is the sequence of its
   components; the file system is the set of its files and symbolic links,
   in the directories Root and Outside. *)

\* the directory entry a path names: ".." leaves the directory before it
RECURSIVE Normalized(_, _)
Normalized(path, done) ==
    IF path = <<>> THEN done
    ELSE IF Head(path) = ".."
    THEN Normalized(Tail(path), SubSeq(done, 1, Len(done) - 1))
    ELSE Normalized(Tail(path), Append(done, Head(path)))

\* Path::canonicalize: Some(the path with ".." and links resolved) if it
\* names a directory or a file that exists, None (an error) otherwise
RECURSIVE Canonicalize(_, _)
Canonicalize(fs, path) ==
    LET at == Normalized(path, <<>>)
        entries == {e \in fs : e.path = at}
    IN  IF at \in {Root, Outside} THEN Some(at)
        ELSE IF entries = {} THEN None
        ELSE LET e == CHOOSE x \in entries : TRUE
             IN  IF e.link = None THEN Some(at) ELSE Canonicalize(fs, e.link[1])

\* Path::starts_with: component by component
StartsWith(path, base) ==
    /\ Len(path) >= Len(base)
    /\ SubSeq(path, 1, Len(base)) = base

\* a variant that compares the path as given, without canonicalize()
DeleteFileAsGiven(fs, root_path, file_path) ==
    LET at == Normalized(file_path, <<>>)
    IN  IF Canonicalize(fs, file_path) = None
        THEN [ok |-> FALSE, cause |-> "File does not exist", files |-> fs]
        ELSE IF ~StartsWith(file_path, root_path)
        THEN [ok |-> FALSE, cause |-> "Security violation", files |-> fs]
        ELSE IF at \in {Root, Outside}
        THEN [ok |-> FALSE, cause |-> "Failed to delete file", files |-> fs]
        ELSE [ok |-> TRUE, cause |-> "", files |-> {e \in fs : e.path # at}]

\* delete_file: exists(), the containment test on the canonical paths, then
\* remove_file(file_path), which removes the entry the path names (a link, not
\* what it names) and fails on a directory
DeleteFile(fs, root_path, file_path) ==
    LET at == Normalized(file_path, <<>>)
    IN  IF Canonicalize(fs, file_path) = None
        THEN [ok |-> FALSE, cause |-> "File does not exist", files |-> fs]
        ELSE IF ~StartsWith(Canonicalize(fs, file_path)[1], Canonicalize(fs, root_path)[1])
        THEN [ok |-> FALSE, cause |-> "Security violation", files |-> fs]
        ELSE IF at \in {Root, Outside}
        THEN [ok |-> FALSE, cause |-> "Failed to delete file", files |-> fs]
        ELSE [ok |-> TRUE, cause |-> "", files |-> {e \in fs : e.path # at}]

\* the file name upload_file gives: the milliseconds of Utc::now(), and the
\* extension of the selected file when it has one
FileName(selected_path) ==
    IF selected_path[Len(selected_path)] = "cat.jpg"
    THEN "1700000000001.jpg"
    ELSE "1700000000001"

\* fs::copy(selected_path, root_path.join(filename)): the destination is
\* created or overwritten
CopyToRoot(fs, root_path, selected_path) ==
    LET destination_path == Append(root_path, FileName(selected_path))
    IN  [destination_path |-> destination_path,
         files |-> {e \in fs : e.path # destination_path}
                       \cup {FileEntry(destination_path, None)}]

--------------------------------------------------------------------------
(* The commands of lib.rs.  Every command locks the Mutex<AppState>, builds
   the service it needs if it is missing, runs its body and returns, which
   drops the guard.  insert_animal and insert_adoption_request run two
   statements, the scan of the ids and the insert; upload_file waits for the
   dialog before it copies. *)

MaxInvocations == 3

\* the paths delete_file is called with
DeletePaths ==
    {Root \o <<"1700000000000.jpg">>,
     Root \o <<"nonexistent_file.txt">>,
     Outside \o <<"outside_file.txt">>,
     Root \o <<"..", "outside_test_dir", "outside_file.txt">>,
     Root \o <<"link_out">>,
     Outside \o <<"link_in">>,
     Root}

\* what the user does with the dialog: cancels, or picks a file
DialogChoices == {None, Some(<<"home", "cat.jpg">>), Some(<<"home", "notes">>)}

Commands ==
    {[name |-> n, arg |-> <<>>] :
         n \in {"create_animal", "create_adoption_request", "get_current_user",
                "upload_file"}}
        \cup {[name |-> "delete_file", arg |-> p] : p \in DeletePaths}

\* the field of AppState a command uses
ServiceOf(name) ==
    CASE name \in {"create_animal", "create_adoption_request"} -> "database_service"
      [] name = "get_current_user" -> "authentication_service"
      [] name \in {"upload_file", "delete_file"} -> "file_service"

At(i, pc) == i \in DOMAIN invocations /\ invocations[i].pc = pc

Commanded(i, pc, name) == At(i, pc) /\ invocations[i].command.name = name

Moved(i, pc) == invocations' = [invocations EXCEPT ![i].pc = pc]

\* the command returns its result; the guard is dropped
Returned(i, result) ==
    /\ invocations' = [invocations EXCEPT ![i].pc = "returned", ![i].result = result]
    /\ state_guard' = 0

\* the front end invokes a command: it waits in state.lock().await
invoke(command) ==
    /\ Len(invocations) < MaxInvocations
    /\ invocations' = Append(invocations, [NoInvocation EXCEPT !.command = command,
                                                               !.pc = "lock"])
    /\ UNCHANGED <<app_state, constructed, state_guard, files, codec, db_vars, auth_vars>>

\* a variant of a lock that does not exclude
LockWithoutWaiting(i) ==
    /\ At(i, "lock")
    /\ state_guard' = i
    /\ Moved(i, "init")
    /\ UNCHANGED <<app_state, constructed, files, codec, db_vars, auth_vars>>

\* state.lock().await returns the guard when no invocation holds it
lock(i) ==
    /\ At(i, "lock")
    /\ state_guard = 0
    /\ state_guard' = i
    /\ Moved(i, "init")
    /\ UNCHANGED <<app_state, constructed, files, codec, db_vars, auth_vars>>

\* init_file_service_once, init_database_service_once and
\* init_authentication_service_once: a service that is None is built; when
\* that fails the command returns the error
init_service_once(i, built) ==
    LET service == ServiceOf(invocations[i].command.name)
    IN  /\ At(i, "init")
        /\ IF app_state[service]
           THEN /\ built
                /\ Moved(i, "body")
                /\ UNCHANGED <<app_state, constructed, state_guard>>
           ELSE IF built
           THEN /\ app_state' = [app_state EXCEPT ![service] = TRUE]
                /\ constructed' = [constructed EXCEPT ![service] = @ + 1]
                /\ Moved(i, "body")
                /\ UNCHANGED state_guard
           ELSE /\ Returned(i, [ok |-> FALSE, cause |-> "Failed to create service",
                                value |-> <<>>])
                /\ UNCHANGED <<app_state, constructed>>
        /\ UNCHANGED <<files, codec, db_vars, auth_vars>>

\* a variant in which the guard is not held between the two statements
MaxIdScanDroppingGuard(i) ==
    /\ \/ Commanded(i, "body", "create_animal")
       \/ Commanded(i, "body", "create_adoption_request")
    /\ invocations' =
           [invocations EXCEPT
                ![i].pc = "scanned",
                ![i].max_id = IF invocations[i].command.name = "create_animal"
                              THEN MaxCastId(animals)
                              ELSE MaxCastId(adoption_requests)]
    /\ state_guard' = 0
    /\ UNCHANGED <<app_state, constructed, files, codec, db_vars, auth_vars>>

\* the first statement of insert_animal and insert_adoption_request for a
\* blank id: SELECT COALESCE(MAX(CAST(id AS INTEGER)), 0)
max_id_scan(i) ==
    /\ \/ Commanded(i, "body", "create_animal")
       \/ Commanded(i, "body", "create_adoption_request")
    /\ invocations' =
           [invocations EXCEPT
                ![i].pc = "scanned",
                ![i].max_id = IF invocations[i].command.name = "create_animal"
                              THEN MaxCastId(animals)
                              ELSE MaxCastId(adoption_requests)]
    /\ UNCHANGED <<app_state, constructed, state_guard, files, codec, db_vars, auth_vars>>

\* the second statement: the INSERT with the id (max_id + 1).to_string().
\* The command returns Ok(()) or the error; value keeps the id of its row
insert_row(i) ==
    LET id == I64ToString(invocations[i].max_id + 1)
        animal == InsertAnimalOutcome(animals, [Buddy EXCEPT !.id = id])
        request == InsertRequestOutcome(adoption_requests, animals,
                                        [JiraPit EXCEPT !.id = id, !.animal_id = Str1])
    IN  /\ \/ /\ Commanded(i, "scanned", "create_animal")
              /\ animals' = animal.table
              /\ last' = Call("insert_animal", Str0, animal, None, <<>>)
              /\ animal_run' = RunAfterInsert(animal_run, Str0, animal)
              /\ Returned(i, [ok |-> animal.ok, cause |-> animal.cause, value |-> id])
              /\ UNCHANGED <<adoption_requests, request_run>>
           \/ /\ Commanded(i, "scanned", "create_adoption_request")
              /\ adoption_requests' = request.table
              /\ last' = Call("insert_adoption_request", Str0, request, None, <<>>)
              /\ request_run' = RunAfterInsert(request_run, Str0, request)
              /\ Returned(i, [ok |-> request.ok, cause |-> request.cause, value |-> id])
              /\ UNCHANGED <<animals, animal_run>>
        /\ UNCHANGED <<app_state, constructed, files, codec, pending, auth_vars>>

\* the body of the command get_current_user
current_user_body(i) ==
    LET out == GetCurrentUser(user_authentication, current_user)
    IN  /\ Commanded(i, "body", "get_current_user")
        /\ Returned(i, [ok |-> out.ok, cause |-> "", value |-> out.user])
        /\ UNCHANGED <<app_state, constructed, files, codec, db_vars, auth_vars>>

\* a variant that drops the guard while the dialog is open
PickFileDroppingGuard(i) ==
    /\ Commanded(i, "body", "upload_file")
    /\ Moved(i, "dialog")
    /\ state_guard' = 0
    /\ UNCHANGED <<app_state, constructed, files, codec, db_vars, auth_vars>>

\* upload_file opens the dialog (pick_file) and awaits the channel
pick_file(i) ==
    /\ Commanded(i, "body", "upload_file")
    /\ Moved(i, "dialog")
    /\ UNCHANGED <<app_state, constructed, state_guard, files, codec, db_vars, auth_vars>>

\* the user cancels, and upload_file returns Ok(None), or picks a file
dialog_resolved(i, file_path) ==
    /\ Commanded(i, "dialog", "upload_file")
    /\ IF file_path = None
       THEN Returned(i, [ok |-> TRUE, cause |-> "", value |-> None])
       ELSE /\ invocations' = [invocations EXCEPT ![i].pc = "picked",
                                                  ![i].command.arg = file_path[1]]
            /\ UNCHANGED state_guard
    /\ UNCHANGED <<app_state, constructed, files, codec, db_vars, auth_vars>>

\* the selected file is copied into the root and its new path returned
copy(i) ==
    LET out == CopyToRoot(files, Root, invocations[i].command.arg)
    IN  /\ Commanded(i, "picked", "upload_file")
        /\ files' = out.files
        /\ Returned(i, [ok |-> TRUE, cause |-> "", value |-> Some(out.destination_path)])
        /\ UNCHANGED <<app_state, constructed, codec, db_vars, auth_vars>>

\* the body of the command delete_file
delete_file(i) ==
    LET out == DeleteFile(files, Root, invocations[i].command.arg)
    IN  /\ Commanded(i, "body", "delete_file")
        /\ files' = out.files
        /\ Returned(i, [ok |-> out.ok, cause |-> out.cause, value |-> <<>>])
        /\ UNCHANGED <<app_state, constructed, codec, db_vars, auth_vars>>

NextApp ==
    \/ \E command \in Commands : invoke(command)
    \/ \E i \in 1..MaxInvocations :
           \/ lock(i)
           \/ \E built \in BOOLEAN : init_service_once(i, built)
           \/ max_id_scan(i)
           \/ insert_row(i)
           \/ current_user_body(i)
           \/ pick_file(i)
           \/ \E file_path \in DialogChoices : dialog_resolved(i, file_path)
           \/ copy(i)
           \/ delete_file(i)

SpecApp == Init /\ [][NextApp]_vars

\* a command that holds the guard takes its next step by itself
run(i) ==
    \/ \E built \in BOOLEAN : init_service_once(i, built)
    \/ max_id_scan(i)
    \/ insert_row(i)
    \/ current_user_body(i)
    \/ pick_file(i)
    \/ copy(i)
    \/ delete_file(i)

\* the steps the runtime takes by itself: a free guard is handed to a command
\* that waits for it, and the command that holds it runs on; only the front
\* end (invoke) and the user at the dialog (dialog_resolved) are free not to
\* act
FairApp ==
    /\ WF_vars(\E i \in 1..MaxInvocations : lock(i))
    /\ WF_vars(\E i \in 1..MaxInvocations : run(i))

\* the commands invoked around an upload: one of each service
UploadCommands ==
    {c \in Commands :
         \/ c.name # "delete_file"
         \/ c.arg = Root \o <<"1700000000000.jpg">>}

NextUpload ==
    \/ \E command \in UploadCommands : invoke(command)
    \/ \E i \in 1..MaxInvocations :
           \/ lock(i)
           \/ run(i)
           \/ \E file_path \in DialogChoices : dialog_resolved(i, file_path)

SpecUploadFair == Init /\ [][NextUpload]_vars /\ FairApp

--------------------------------------------------------------------------
(* Properties of the store *)

DecimalNames == <<Str1, Str2, <<"3">>, <<"4">>, <<"5">>>>

IdColumn(table) == [i \in 1..Len(table) |-> table[i].id]

UniqueIds(table) ==
    \A i, j \in 1..Len(table) : table[i].id = table[j].id => i = j

\* the rows of after whose id is not id are those of before, in place
OthersUntouched(before, after, id) ==
    /\ Len(after) = Len(before)
    /\ \A i \in 1..Len(before) : before[i].id # id => after[i] = before[i]

\* after is before without its row id
OnlyRowRemoved(before, after, id) ==
    /\ HasId(before, id)
    /\ after = RemoveAt(before, IndexOf(before, id))

\* C1: starting from an empty table, n consecutive inserts with a blank id
\* (empty or white space only) and no delete in between leave rows whose ids
\* are "1", "2", ..., "n" in call order; the same holds of adoption_requests.
C1_BlankIdsAreSequential ==
    /\ animal_run >= 0 => IdColumn(animals) = SubSeq(DecimalNames, 1, animal_run)
    /\ request_run >= 0 =>
           IdColumn(adoption_requests) = SubSeq(DecimalNames, 1, request_run)

C1_Witness ==
    /\ animal_run = 2
    /\ request_run = 2
    /\ last.op = "insert_animal"
    /\ last.given = StrBlank
    /\ last.ok

\* C2: an insert with a non-blank id that a row already has fails and leaves
\* the table as it was; no two rows of a table ever share an id.
C2_DuplicateInsertFails ==
    [][/\ UniqueIds(animals') /\ UniqueIds(adoption_requests')
       /\ (last'.op = "insert_animal" /\ ~IsBlank(last'.given)
               /\ HasId(animals, last'.given))
              => (~last'.ok /\ animals' = animals)
       /\ (last'.op = "insert_adoption_request" /\ ~IsBlank(last'.given)
               /\ HasId(adoption_requests, last'.given))
              => (~last'.ok /\ adoption_requests' = adoption_requests)]_vars

C2_Witness ==
    /\ last.op = "insert_animal"
    /\ ~last.ok
    /\ last.cause = "PrimaryKey"
    /\ HasId(animals, last.given)

\* C3: insert_adoption_request naming an animal_id that no row of animals has
\* fails on the constraint and adds no row to adoption_requests.
C3_ForeignKeyEnforced ==
    [][last'.op = "insert_adoption_request" =>
          \A r \in RequestInputs :
              (insert_adoption_request(r) /\ ~HasId(animals, r.animal_id))
                  => /\ ~last'.ok
                     /\ last'.cause \in {"ForeignKey", "PrimaryKey"}
                     /\ adoption_requests' = adoption_requests]_vars

C3_Witness ==
    /\ last.op = "insert_adoption_request"
    /\ ~last.ok
    /\ last.cause = "ForeignKey"
    /\ animals = <<>>

\* Ok(true), Ok(false) and Err(..) as the last call returned them
ReturnedTrue(call) == call.ok /\ call.changed
ReturnedFalse(call) == call.ok /\ ~call.changed
ReturnedErr(call) == ~call.ok

\* the fields of the stored row that the record passed in does not change stay
\* as they were
SameFieldsKept(before, after, record, id) ==
    LET old == before[IndexOf(before, id)]
        new == after[IndexOf(after, id)]
    IN  \A f \in (DOMAIN old) \ {"id", "status"} : record[f] = old[f] => new[f] = old[f]

\* update_animal(A) on the step taken: found and overwritten, or not found
UpdateAnimalContract ==
    last'.op = "update_animal" =>
        \A v \in AnimalValues :
            LET A == [v EXCEPT !.id = last'.given]
            IN  update_animal(A) =>
                    IF HasId(animals, A.id)
                    THEN /\ ReturnedTrue(last')
                         /\ QueryAnimalById(animals', A.id) = Some(A)
                         /\ SameFieldsKept(animals, animals', A, A.id)
                         /\ OthersUntouched(animals, animals', A.id)
                    ELSE /\ ReturnedFalse(last')
                         /\ animals' = animals

\* update_adoption_request(A) on the step taken; Checked says whether the
\* statement is limited to records whose animal_id names a row of animals
UpdateRequestContract(Checked) ==
    last'.op = "update_adoption_request" =>
        \A v \in RequestValues, a \in AnimalRefInputs :
            LET A == [v EXCEPT !.id = last'.given, !.animal_id = a]
            IN  update_adoption_request(A) =>
                    IF ~HasId(adoption_requests, A.id)
                    THEN /\ ReturnedFalse(last')
                         /\ adoption_requests' = adoption_requests
                    ELSE IF Checked /\ ~HasId(animals, A.animal_id)
                    THEN /\ ReturnedErr(last')
                         /\ adoption_requests' = adoption_requests
                    ELSE /\ ReturnedTrue(last')
                         /\ QueryRequestById(adoption_requests', A.id) = Some(A)
                         /\ SameFieldsKept(adoption_requests, adoption_requests', A, A.id)
                         /\ OthersUntouched(adoption_requests, adoption_requests', A.id)

\* C4 (amended): update_animal(A), and update_adoption_request(A) with an
\* animal_id that a row of animals has: if a row with id A.id exists the call
\* returns true, every non-id field of that row becomes A's value, every other
\* row is unchanged and get_by_id(A.id) returns A; if no such row exists it
\* returns false, not an error, and the table is unchanged.
\* update_adoption_request of an existing row with an animal_id that no row of
\* animals has fails with an error and leaves the table unchanged.
C4_UpdateOverwritesRow ==
    [][UpdateAnimalContract /\ UpdateRequestContract(TRUE)]_vars

C4_Witness ==
    /\ last.op = "update_animal"
    /\ ReturnedTrue(last)
    /\ Len(animals) = 2
    /\ QueryAnimalById(animals, last.given) = Some([BuddyAdopted EXCEPT !.id = last.given])

\* C4 as first stated: update_adoption_request of an existing row returns true
\* and overwrites it, whatever animal_id the record names
C4_UpdateAlwaysSucceeds ==
    [][UpdateAnimalContract /\ UpdateRequestContract(FALSE)]_vars

\* delete_adoption_request(id) on the step taken
DeleteRequestContract ==
    last'.op = "delete_adoption_request" =>
        IF HasId(adoption_requests, last'.given)
        THEN /\ ReturnedTrue(last')
             /\ OnlyRowRemoved(adoption_requests, adoption_requests', last'.given)
             /\ QueryRequestById(adoption_requests', last'.given) = None
        ELSE /\ ReturnedFalse(last')
             /\ adoption_requests' = adoption_requests

\* delete_animal(id) on the step taken; Checked says whether an animal that a
\* request references is set apart
DeleteAnimalContract(Checked) ==
    last'.op = "delete_animal" =>
        IF ~HasId(animals, last'.given)
        THEN /\ ReturnedFalse(last')
             /\ animals' = animals
        ELSE IF Checked /\ IsReferenced(adoption_requests, last'.given)
        THEN /\ ReturnedErr(last')
             /\ animals' = animals
             /\ adoption_requests' = adoption_requests
        ELSE /\ ReturnedTrue(last')
             /\ OnlyRowRemoved(animals, animals', last'.given)
             /\ QueryAnimalById(animals', last'.given) = None

\* C5 (amended): delete_adoption_request(id), and delete_animal(id) of an
\* animal that no adoption request references, return Ok(true) exactly when a
\* row with that id existed, that row alone is removed and get_by_id(id) then
\* returns None; they return Ok(false) with the table unchanged when no such
\* row exists.  delete_animal(id) of an animal that an adoption request
\* references returns an error and leaves both tables unchanged.
C5_DeleteRemovesRow ==
    [][DeleteAnimalContract(TRUE) /\ DeleteRequestContract]_vars

C5_Witness ==
    /\ last.op = "delete_animal"
    /\ ReturnedTrue(last)
    /\ Len(animals) = 1
    /\ ~HasId(animals, last.given)

\* C5 as first stated: an existing id is never reported as an error
C5_DeleteNeverErrs ==
    [][DeleteAnimalContract(FALSE) /\ DeleteRequestContract]_vars

\* the requests of an animal are where they were and the query by animal id
\* returns them
RequestsKept(animal_id) ==
    /\ adoption_requests' = adoption_requests
    /\ QueryRequestsByAnimalId(adoption_requests', animal_id) # <<>>
    /\ QueryRequestsByAnimalId(adoption_requests', animal_id)
           = QueryRequestsByAnimalId(adoption_requests, animal_id)
    /\ \A i \in 1..Len(adoption_requests) :
           adoption_requests[i].animal_id = animal_id =>
               \E j \in 1..Len(QueryRequestsByAnimalId(adoption_requests', animal_id)) :
                   QueryRequestsByAnimalId(adoption_requests', animal_id)[j]
                       = RowToRequest(adoption_requests[i])

\* C6 (amended): deleting an animal does not delete its adoption requests:
\* delete_animal(id) on an animal that has adoption requests fails with an
\* error, the animal row stays as it was, and every adoption request with
\* animal_id = id is still in the store, unchanged, and still returned by
\* query_adoption_requests_by_animal_id(id).
C6_DeleteKeepsRequests ==
    [][(last'.op = "delete_animal" /\ HasId(animals, last'.given)
            /\ IsReferenced(adoption_requests, last'.given))
          => /\ ReturnedErr(last')
             /\ animals' = animals
             /\ RequestsKept(last'.given)]_vars

C6_Witness ==
    /\ last.op = "delete_animal"
    /\ ReturnedErr(last)
    /\ last.cause = "ForeignKey"
    /\ HasId(animals, last.given)
    /\ Len(QueryRequestsByAnimalId(adoption_requests, last.given)) = 2

\* C6 as first stated: after delete_animal(id) on an animal that has adoption
\* requests the animal row is gone and its requests are still in the store
C6_AnimalGoneRequestsKept ==
    [][(last'.op = "delete_animal" /\ HasId(animals, last'.given)
            /\ IsReferenced(adoption_requests, last'.given))
          => /\ ~HasId(animals', last'.given)
             /\ RequestsKept(last'.given)]_vars

--------------------------------------------------------------------------
(* The list query *)

Members(values) == {values[i] : i \in 1..Len(values)}

\* the summaries of the rows of animals that satisfy Test, each once
Listed(Test(_)) ==
    [i \in 1..Len(SelectSeq(animals, Test)) |-> RowToSummary(SelectSeq(animals, Test)[i])]

EveryRow(row) == TRUE

\* the pending query has run
Queried == last.op = "query_animals"

\* the pending filter map has the one entry criteria -> Some(value)
OnlyFilter(criteria, value) == pending.filters = Some(<<Entry(criteria, Some(value))>>)

\* an entry that asks for nothing: a criterion mapped to None, or a date
\* criterion set to all_time or to a token that names no period
IsNoOpEntry(entry) ==
    \/ entry.value = None
    \/ /\ entry.criteria \in {"AdmissionDate", "AdoptionDate"}
       /\ entry.value[1].shape = "ChooseOne"
       /\ entry.value[1].one \notin PeriodTokens

IsNoOpFilter(filters) ==
    \/ filters = None
    \/ \A i \in 1..Len(filters[1]) : IsNoOpEntry(filters[1][i])

\* C7: query_animals with no filter (None), an empty map, a map whose criteria
\* are all mapped to None, or AdmissionDate/AdoptionDate set to all_time or to
\* an unrecognized token returns every row of animals exactly once.
C7_NoOpFiltersReturnAll ==
    (Queried /\ IsNoOpFilter(pending.filters)) => last.rows = Listed(EveryRow)

C7_Witness ==
    /\ Queried
    /\ OnlyFilter("AdoptionDate", ChooseOne("yesterday"))
    /\ Len(animals) = Len(QueryAnimalInputs)
    /\ Len(last.rows) = Len(animals)

\* C8: with Status = ChooseMany(S) query_animals returns exactly the animals
\* whose stored status string is a member of S, with Sex = ChooseMany(S) those
\* whose sex is in S; when S is empty the result is empty though animals exist.
C8_InListFilters ==
    Queried =>
        /\ \A S \in StatusLists :
               OnlyFilter("Status", ChooseMany(S)) =>
                   LET InS(row) == row.status \in Members(S)
                   IN  /\ last.rows = Listed(InS)
                       /\ S = <<>> => last.rows = <<>>
        /\ \A S \in SexLists :
               OnlyFilter("Sex", ChooseMany(S)) =>
                   LET InS(row) == row.sex \in Members(S)
                   IN  /\ last.rows = Listed(InS)
                       /\ S = <<>> => last.rows = <<>>

C8_Witness ==
    /\ Queried
    /\ OnlyFilter("Status", ChooseMany(<<"adopted", "available">>))
    /\ Len(animals) = Len(QueryAnimalInputs)
    /\ Len(last.rows) = 6

\* C9: with SpeciesAndBreeds = M query_animals returns exactly the animals for
\* which some species S of M has a non-empty breed list that contains the
\* animal's breed and S equals the animal's specie; when M is empty or every
\* breed list of M is empty the result is empty.
C9_SpeciesAndBreedsFilter ==
    Queried =>
        \A M \in SpeciesMaps :
            OnlyFilter("SpeciesAndBreeds", NestedChooseMany(M)) =>
                LET InM(row) ==
                        \E i \in 1..Len(M) :
                            /\ M[i].breeds # <<>>
                            /\ M[i].specie = row.specie
                            /\ row.breed \in Members(M[i].breeds)
                IN  /\ last.rows = Listed(InM)
                    /\ (\A i \in 1..Len(M) : M[i].breeds = <<>>) => last.rows = <<>>

C9_Witness ==
    /\ Queried
    /\ OnlyFilter("SpeciesAndBreeds",
                  NestedChooseMany(<<Breeds("Cat", <<"Siamese">>),
                                     Breeds("Dog", <<"Labrador", "Golden Retriever">>)>>))
    /\ Len(animals) = Len(QueryAnimalInputs)
    /\ Len(last.rows) = 5

\* the calendar: the first second (UTC) of the day, of the week from Monday, of
\* the month and of the year that hold each instant of Nows
\*   1704067200 = Mon 2024-01-01 00:00:00    1709294400 = Fri 2024-03-01 12:00:00
\*   1709510399 = Sun 2024-03-03 23:59:59    1708905600 = Mon 2024-02-26 00:00:00
\*   1709251200 = Fri 2024-03-01 00:00:00    1709424000 = Sun 2024-03-03 00:00:00
CalendarStart(period, now) ==
    CASE now = 1704067200 -> 1704067200
      [] now = 1709294400 ->
            (CASE period = "today" -> 1709251200
               [] period = "this_week" -> 1708905600
               [] period = "this_month" -> 1709251200
               [] period = "this_year" -> 1704067200)
      [] now = 1709510399 ->
            (CASE period = "today" -> 1709424000
               [] period = "this_week" -> 1708905600
               [] period = "this_month" -> 1709251200
               [] period = "this_year" -> 1704067200)

\* C10: with AdmissionDate = p, p one of today, this_week, this_month,
\* this_year, query_animals returns exactly the animals with
\* admission_timestamp >= start(p), start(p) being 00:00 UTC of the current
\* date, of the Monday on or before it, of day 1 of the current month, of
\* 1 January of the current year; no upper bound applies.
C10_AdmissionDateFilter ==
    Queried =>
        \A p \in PeriodTokens :
            OnlyFilter("AdmissionDate", ChooseOne(p)) =>
                LET Since(row) == row.admission_timestamp >= CalendarStart(p, pending.now)
                IN  last.rows = Listed(Since)

C10_Witness ==
    /\ Queried
    /\ OnlyFilter("AdmissionDate", ChooseOne("this_week"))
    /\ pending.now = 1709510399
    /\ Len(animals) = Len(QueryAnimalInputs)
    /\ Len(last.rows) = 6

\* the start of period p at the pending query's instant
PendingStart(p) == CalendarStart(p, pending.now)

\* C11: with AdoptionDate = p, p a period, query_animals returns exactly the
\* animals for which an adoption request exists with that animal_id, status
\* Approved and adoption_timestamp >= start(p); Pending and Rejected requests
\* never make an animal match, the animal's own status plays no part, and an
\* animal with several matching requests appears once.
C11_AdoptionDateFilter ==
    Queried =>
        \A p \in PeriodTokens :
            OnlyFilter("AdoptionDate", ChooseOne(p)) =>
                LET Adopted(row) ==
                        \E i \in 1..Len(adoption_requests) :
                            /\ adoption_requests[i].animal_id = row.id
                            /\ RowToRequest(adoption_requests[i]).status = "Approved"
                            /\ adoption_requests[i].adoption_timestamp >= PendingStart(p)
                IN  /\ last.rows = Listed(Adopted)
                    /\ \A i, j \in 1..Len(last.rows) :
                           last.rows[i].id = last.rows[j].id => i = j

\* Milo has two approved requests in the week, Rocky a pending and a rejected one
C11_Witness ==
    /\ Queried
    /\ OnlyFilter("AdoptionDate", ChooseOne("this_week"))
    /\ pending.now = 1709510399
    /\ Len(animals) = Len(QueryAnimalInputs)
    /\ Len(adoption_requests) = Len(QueryRequestInputs)
    /\ Len(last.rows) = 1
    /\ last.rows[1].id = <<"a", "4">>

\* the calendar: the day of the week of each instant of RecentNows, 0 Monday
\* to 6 Sunday (the week of Monday 2024-02-26)
DayOfWeek(now) ==
    CASE now \in {1708905600, 1708991999} -> 0
      [] now \in {1708992000, 1709035200} -> 1
      [] now = 1709078400 -> 2
      [] now = 1709208000 -> 3
      [] now = 1709294400 -> 4
      [] now = 1709359200 -> 5
      [] now = 1709510399 -> 6

IsListed(id) == \E k \in 1..Len(last.rows) : last.rows[k].id = id

\* the animals with an approved request adopted exactly days days before the
\* pending query's instant
AdoptedDaysAgo(days) ==
    {animals[i].id : i \in
        {i \in 1..Len(animals) :
            \E j \in 1..Len(adoption_requests) :
                /\ adoption_requests[j].animal_id = animals[i].id
                /\ adoption_requests[j].status = "approved"
                /\ adoption_requests[j].adoption_timestamp = pending.now - 86400 * days}}

\* the animals admitted exactly days days before the pending query's instant
AdmittedDaysAgo(days) ==
    {animals[i].id : i \in
        {i \in 1..Len(animals) :
            animals[i].admission_timestamp = pending.now - 86400 * days}}

\* what this_week returns of the animals of 1 and 2 days ago; Always says
\* whether they are held to be returned at every query time
RecentInWeek(Always) ==
    /\ OnlyFilter("AdoptionDate", ChooseOne("this_week")) =>
           \A days \in {1, 2} : \A id \in AdoptedDaysAgo(days) :
               IsListed(id) <=> (Always \/ DayOfWeek(pending.now) >= days)
    /\ OnlyFilter("AdmissionDate", ChooseOne("this_week")) =>
           \A id \in AdmittedDaysAgo(1) :
               IsListed(id) <=> (Always \/ DayOfWeek(pending.now) >= 1)

RecentNotToday ==
    OnlyFilter("AdoptionDate", ChooseOne("today")) =>
        \A days \in {1, 2} : \A id \in AdoptedDaysAgo(days) : ~IsListed(id)

ListedIds(rows) == {rows[k].id : k \in 1..Len(rows)}

\* what query_animals returns on the current tables for the one entry alone
AloneIds(entry) ==
    ListedIds(QueryAnimals(animals, adoption_requests, Some(<<entry>>), pending.now))

Reversed(entries) == [k \in 1..Len(entries) |-> entries[Len(entries) + 1 - k]]

\* C13: criteria are conjunctive: for a filter map of several criteria the
\* animals query_animals returns are those returned for every criterion
\* applied alone, so adding a criterion never adds a row, and the result does
\* not depend on the iteration order of the map.
C13_CriteriaAreConjunctive ==
    (Queried /\ pending.filters # None /\ Len(pending.filters[1]) >= 2) =>
        LET entries == pending.filters[1]
            InAll(row) == \A k \in 1..Len(entries) : row.id \in AloneIds(entries[k])
        IN  /\ last.rows = Listed(InAll)
            /\ \A k \in 1..Len(entries) : ListedIds(last.rows) \subseteq AloneIds(entries[k])
            /\ last.rows = QueryAnimals(animals, adoption_requests,
                                        Some(Reversed(entries)), pending.now)

C13_Witness ==
    /\ Queried
    /\ pending.filters = Some(<<Entry("Status", Some(ChooseMany(<<"available">>))),
                                Entry("Sex", Some(ChooseMany(<<"Male">>)))>>)
    /\ Len(animals) = Len(QueryAnimalInputs)
    /\ Len(last.rows) = 1
    /\ Cardinality(AloneIds(pending.filters[1][1])) = 3
    /\ Cardinality(AloneIds(pending.filters[1][2])) = 5

\* the fragments the text of the statement is made of
FixedFragments ==
    {"SELECT id, name, specie, breed, sex, admission_timestamp, status, image_path FROM animals",
     " WHERE ", " AND ", " OR ", ",", "(", ")", "))", "1=0",
     "status IN (", "sex IN (", "(specie = ", " AND breed IN (",
     "admission_timestamp >= ",
     "EXISTS (SELECT 1 FROM adoption_requests ar WHERE ar.animal_id = animals.id AND ar.status = 'approved' AND ar.adoption_timestamp >= "}

PlaceholderCount(text) == Cardinality({k \in 1..Len(text) : text[k] = "?"})

\* the values the species of a nested map ask for: of each species with
\* breeds, the species and then its breeds
RECURSIVE SpeciesValues(_)
SpeciesValues(nested) ==
    IF nested = <<>> THEN <<>>
    ELSE (IF Head(nested).breeds = <<>> THEN <<>>
          ELSE <<TextValue(Head(nested).specie)>> \o TextValues(Head(nested).breeds))
             \o SpeciesValues(Tail(nested))

\* the values the clause of an entry is built for, in the order of its
\* placeholders
ValuesOf(entry) ==
    IF entry.value = None THEN <<>>
    ELSE LET value == entry.value[1]
         IN  CASE entry.criteria \in {"Status", "Sex"} /\ value.shape = "ChooseMany" ->
                      TextValues(value.many)
               [] entry.criteria = "SpeciesAndBreeds" /\ value.shape = "NestedChooseMany" ->
                      SpeciesValues(value.nested)
               [] entry.criteria \in {"AdmissionDate", "AdoptionDate"}
                      /\ value.shape = "ChooseOne" /\ value.one \in PeriodTokens ->
                      <<IntegerValue(PendingStart(value.one))>>
               [] OTHER -> <<>>

ColumnOf(criteria) ==
    CASE criteria = "Status" -> "status"
      [] criteria = "Sex" -> "sex"
      [] criteria = "SpeciesAndBreeds" -> "species"
      [] criteria = "AdmissionDate" -> "admission"
      [] criteria = "AdoptionDate" -> "adoption"

RECURSIVE AllValues(_)
AllValues(entries) ==
    IF entries = <<>> THEN <<>> ELSE ValuesOf(Head(entries)) \o AllValues(Tail(entries))

\* of the entries that ask for values, the column and the number of values
RECURSIVE Asked(_)
Asked(entries) ==
    IF entries = <<>> THEN <<>>
    ELSE (IF ValuesOf(Head(entries)) = <<>> THEN <<>>
          ELSE <<<<ColumnOf(Head(entries).criteria), Len(ValuesOf(Head(entries)))>>>>)
             \o Asked(Tail(entries))

\* of the clauses that hold placeholders, the column and the number of
\* placeholders in the text of the clause
RECURSIVE Placed(_)
Placed(where_clauses) ==
    IF where_clauses = <<>> THEN <<>>
    ELSE (IF PlaceholderCount(ClauseText(Head(where_clauses))) = 0 THEN <<>>
          ELSE <<<<Head(where_clauses).kind,
                   PlaceholderCount(ClauseText(Head(where_clauses)))>>>>)
             \o Placed(Tail(where_clauses))

\* C14: for every filter map and every iteration order of the map and of a
\* nested species map, the text query_animals builds is made of fixed
\* fragments and "?" placeholders only, it holds as many placeholders as the
\* parameter list has values, and the k-th placeholder is bound to the value
\* its clause was built for.
C14_PlaceholdersBoundInOrder ==
    Queried =>
        LET built == BuildQuery(pending.filters, pending.now)
            text == QueryText(built)
            entries == IF pending.filters = None THEN <<>> ELSE pending.filters[1]
        IN  /\ \A k \in 1..Len(text) : text[k] = "?" \/ text[k] \in FixedFragments
            /\ PlaceholderCount(text) = Len(built.params)
            /\ Placed(built.where_clauses) = Asked(entries)
            /\ built.params = AllValues(entries)

C14_Witness ==
    /\ Queried
    /\ pending.filters =
           Some(<<Entry("SpeciesAndBreeds",
                        Some(NestedChooseMany(
                            <<Breeds("Cat", <<"Siamese">>),
                              Breeds("Dog", <<"Labrador", "Golden Retriever">>)>>))),
                  Entry("AdmissionDate", Some(ChooseOne("this_week")))>>)
    /\ Len(BuildQuery(pending.filters, pending.now).params) = 6
    /\ Len(animals) = Len(QueryAnimalInputs)
    /\ last.rows # <<>>

--------------------------------------------------------------------------
(* Authentication service *)

\* the entries of signed_up for a user name
GivenAtSignUp(username) ==
    {i \in 1..Len(signed_up) : signed_up[i].username = username}

\* the transition is sign_up of these arguments
SignUpOf(input, salt) ==
    /\ auth_last'.op = "sign_up"
    /\ sign_up(input[1], input[2], input[3], salt)

\* C15: sign_up fails when the username is empty or whitespace-only or when
\* the password has fewer than 6 characters, and a 6-character password is
\* accepted for a name that is neither blank nor stored; when it fails for
\* such input no row is stored and the session is as it was.
C15_ShortPasswordFails ==
    [][\A input \in SignUpInputs, salt \in {"salt1", "salt2"} :
           SignUpOf(input, salt) =>
               /\ (Trim(input[1]) = <<>> \/ Len(input[2]) < MinPasswordLen) =>
                      /\ ~auth_last'.ok
                      /\ user_authentication' = user_authentication
                      /\ current_user' = current_user
               /\ (/\ Trim(input[1]) # <<>>
                   /\ Len(input[2]) = MinPasswordLen
                   /\ GivenAtSignUp(input[1]) = {}) => auth_last'.ok]_vars

\* a sign_up with a password of three characters has stored a row
C15_Witness ==
    /\ auth_last.op = "sign_up"
    /\ auth_last.ok
    /\ Len(signed_up[Len(signed_up)].password) < MinPasswordLen
    /\ Len(user_authentication) = Len(signed_up)

\* C16: a sign_up that passes the input checks for a user name no row has
\* succeeds, appends one row {username, hash of the password, role} and
\* nothing else, and makes the name the session, whoever was logged in, so
\* that get_current_user returns the name with the role.
C16_SignUpStoresAndLogsIn ==
    [][\A input \in SignUpInputs, salt \in {"salt1", "salt2"} :
           (/\ SignUpOf(input, salt)
            /\ Trim(input[1]) # <<>>
            /\ ByteLen(input[2]) >= MinPasswordLen
            /\ GetUserRole(user_authentication, input[1]) = None) =>
               /\ auth_last'.ok
               /\ Len(user_authentication') = Len(user_authentication) + 1
               /\ SubSeq(user_authentication', 1, Len(user_authentication))
                      = user_authentication
               /\ LET row == user_authentication'[Len(user_authentication')]
                  IN  /\ DOMAIN row = {"username", "password_hash", "role"}
                      /\ row.username = input[1]
                      /\ Verify(input[2], row.password_hash)
                      /\ UserRoleFromStr(row.role) = input[3]
               /\ current_user' = Some(input[1])
               /\ GetCurrentUser(user_authentication', current_user') =
                      [ok |-> TRUE,
                       user |-> Some([username |-> input[1], role |-> input[3]])]]_vars

\* the second user has signed up and is the session
C16_Witness ==
    /\ auth_last.op = "sign_up"
    /\ auth_last.ok
    /\ Len(user_authentication) = 2
    /\ user_authentication[2].username = auth_last.username
    /\ current_user = Some(auth_last.username)

\* C17: sign_up for a user name that a row has fails (with the failure of the
\* insert when the input checks pass) and leaves the table and the session as
\* they were; no step changes or removes a stored row.
C17_DuplicateSignUpFails ==
    [][/\ \A i \in 1..Len(user_authentication) :
              /\ i <= Len(user_authentication')
              /\ user_authentication'[i] = user_authentication[i]
       /\ \A input \in SignUpInputs, salt \in {"salt1", "salt2"} :
              (/\ SignUpOf(input, salt)
               /\ GetUserRole(user_authentication, input[1]) # None) =>
                  /\ ~auth_last'.ok
                  /\ ByteLen(input[2]) >= MinPasswordLen =>
                         auth_last'.cause = "Failed to create user account"
                  /\ user_authentication' = user_authentication
                  /\ current_user' = current_user]_vars

\* a sign_up for a stored name has failed at the insert while the other user
\* is logged in
C17_Witness ==
    /\ auth_last.op = "sign_up"
    /\ ~auth_last.ok
    /\ auth_last.cause = "Failed to create user account"
    /\ GetUserRole(user_authentication, auth_last.username) # None
    /\ current_user # None
    /\ current_user # Some(auth_last.username)

\* C18: log_in returns UserNotFound exactly when the user name was never
\* signed up; for a user that was, it returns Success exactly when the
\* password equals the one given at sign-up and InvalidPassword otherwise; the
\* session becomes the user name on Success and is as it was otherwise.
C18_SuccessIffSamePassword ==
    [][\A username \in {NameBob, NameAl},
          password \in {Pass6, PassWrong, PassAccents, PassLongX, PassLongY} :
           (auth_last'.op = "log_in" /\ log_in(username, password)) =>
               /\ auth_last'.ok
               /\ auth_last'.result = "UserNotFound" <=> GivenAtSignUp(username) = {}
               /\ GivenAtSignUp(username) # {} =>
                      auth_last'.result =
                          IF \E i \in GivenAtSignUp(username) :
                                 signed_up[i].password = password
                          THEN "Success"
                          ELSE "InvalidPassword"
               /\ current_user' = IF auth_last'.result = "Success"
                                  THEN Some(username)
                                  ELSE current_user]_vars

\* the log_in that followed the sign_up of the same user did not succeed
FailedAfterSignUp ==
    /\ auth_last.op = "log_in"
    /\ auth_last.after_sign_up
    /\ auth_last.result # "Success"

C20_GetCurrentUser ==
    [][get_current_user =>
           /\ current_user' = current_user
           /\ user_authentication' = user_authentication
           /\ current_user = None => (auth_last'.ok /\ auth_last'.user = None)
           /\ current_user # None =>
                  IF GivenAtSignUp(current_user[1]) = {}
                  THEN /\ ~auth_last'.ok
                       /\ auth_last'.cause = "Current user not found in database"
                  ELSE /\ auth_last'.ok
                       /\ \E i \in GivenAtSignUp(current_user[1]) :
                              auth_last'.user =
                                  Some([username |-> current_user[1],
                                        role |-> signed_up[i].role])]_vars

\* get_current_user has failed on a session whose row is gone
C20_Witness ==
    /\ auth_last.op = "get_current_user"
    /\ ~auth_last.ok
    /\ current_user # None
    /\ GetUserRole(user_authentication, current_user[1]) = None

\* C21: log_out always succeeds and leaves the session empty, with or without
\* a user logged in, and leaves the table as it was; while the session is
\* empty get_current_user returns None, and only a sign_up that succeeds or a
\* log_in that returns Success sets the session again.
C21_LogOutClearsSession ==
    [][/\ auth_last'.op = "log_out" =>
              /\ auth_last'.ok
              /\ current_user' = None
              /\ user_authentication' = user_authentication
              /\ GetCurrentUser(user_authentication', current_user') =
                     [ok |-> TRUE, user |-> None]
       /\ (current_user = None /\ auth_last'.op = "get_current_user") =>
              (auth_last'.ok /\ auth_last'.user = None)
       /\ (current_user = None /\ current_user' # None) =>
              \/ auth_last'.op = "sign_up" /\ auth_last'.ok
              \/ auth_last'.op = "log_in" /\ auth_last'.result = "Success"]_vars

\* log_out has run on a service whose table has rows
C21_Witness ==
    /\ auth_last.op = "log_out"
    /\ auth_last.ok
    /\ current_user = None
    /\ Len(user_authentication) = 2

--------------------------------------------------------------------------
(* Invariants of the store and of the session *)

\* C27: after any sequence of inserts, updates and deletes every adoption
\* request's animal_id is the id of a row of animals; delete_animal and
\* update_adoption_request fail rather than leave a request without its animal.
C27_ReferentialIntegrity ==
    \A i \in 1..Len(adoption_requests) : HasId(animals, adoption_requests[i].animal_id)

\* an update that names an animal no row has, or the delete of an animal that
\* requests name, has been refused while requests are stored
C27_Witness ==
    /\ last.op \in {"update_adoption_request", "delete_animal"}
    /\ ~last.ok
    /\ last.cause = "ForeignKey"
    /\ Len(adoption_requests) = 2

\* C28: in every state that sign_up, log_in, log_out and get_current_user
\* reach on one service, the session, when set, names a stored row, so
\* get_current_user never fails with 'current user not found'.
C28_SessionNamesStoredUser ==
    /\ current_user # None => GetUserRole(user_authentication, current_user[1]) # None
    /\ GetCurrentUser(user_authentication, current_user).ok
    /\ auth_last.op = "get_current_user" => auth_last.ok

\* get_current_user has returned the second user
C28_Witness ==
    /\ auth_last.op = "get_current_user"
    /\ auth_last.ok
    /\ Len(user_authentication) = 2
    /\ current_user = Some(user_authentication[2].username)
    /\ auth_last.user # None

\* the step is an insert with a blank id that succeeds
BlankInsertOf(op) == last'.op = op /\ IsBlank(last'.given) /\ last'.ok

\* the call before removed the row holding the maximum numeric id: a decimal
\* number that no cast of a remaining id exceeds
DeletedMaxOf(op, table) ==
    /\ last.op = op
    /\ last.changed
    /\ last.id = I64ToString(CastInteger(last.id))
    /\ CastInteger(last.id) >= MaxCastId(table)

\* the id of a blank-id insert is one more than the maximum of the integer
\* casts of the ids of the rows now stored, and no row has it
GivenFromCurrentRows(op, table) ==
    BlankInsertOf(op) =>
        /\ last'.id = I64ToString(MaxCastId(table) + 1)
        /\ ~HasId(table, last'.id)

\* C29: the id a blank-id insert gives depends only on the rows now in the
\* table (maximum of the integer casts, 0 for none and for non-numeric ids,
\* plus 1) and is the id of no row now stored; right after the delete of the
\* row holding the maximum it is the deleted id again exactly when that id is
\* the decimal of the remaining maximum plus 1.
C29_BlankIdFromCurrentRows ==
    [][/\ GivenFromCurrentRows("insert_animal", animals)
       /\ GivenFromCurrentRows("insert_adoption_request", adoption_requests)
       /\ (BlankInsertOf("insert_animal") /\ DeletedMaxOf("delete_animal", animals)) =>
              (last'.id = last.id <=> last.id = I64ToString(MaxCastId(animals) + 1))
       /\ (/\ BlankInsertOf("insert_adoption_request")
           /\ DeletedMaxOf("delete_adoption_request", adoption_requests)) =>
              (last'.id = last.id
                   <=> last.id = I64ToString(MaxCastId(adoption_requests) + 1))]_vars

\* the row holding the maximum has been deleted, rows remain, and the next
\* blank-id insert is given the deleted id
C29_Witness ==
    /\ last.op = "delete_animal"
    /\ last.changed
    /\ animals # <<>>
    /\ DeletedMaxOf("delete_animal", animals)
    /\ InsertId(animals, Str0) = last.id

\* C29 as stated: right after the delete of the row holding the maximum the
\* next blank-id insert is given the deleted id.
C29_DeletedMaxIdGivenAgain ==
    [][/\ GivenFromCurrentRows("insert_animal", animals)
       /\ GivenFromCurrentRows("insert_adoption_request", adoption_requests)
       /\ (BlankInsertOf("insert_animal") /\ DeletedMaxOf("delete_animal", animals)) =>
              last'.id = last.id
       /\ (/\ BlankInsertOf("insert_adoption_request")
           /\ DeletedMaxOf("delete_adoption_request", adoption_requests)) =>
              last'.id = last.id]_vars

--------------------------------------------------------------------------
(* Criteria whose value has another shape *)

\* the criteria of the pending map
PendingCriteria ==
    IF pending.filters = None THEN {}
    ELSE {pending.filters[1][i].criteria : i \in 1..Len(pending.filters[1])}

\* what query_animals returns on the current tables for a map
RowsFor(entries) ==
    QueryAnimals(animals, adoption_requests, Some(entries), pending.now)

\* C30: a criterion whose value has another shape than the one its arm reads
\* contributes no predicate: alone it returns every row, and put before or
\* after the entries of any map it leaves the rows returned as they are.
C30_OtherShapeIsNoFilter ==
    Queried =>
        \A c \in Criteria : \A v \in Misshaped(c) :
            /\ OnlyFilter(c, v) => (last.ok /\ last.rows = Listed(EveryRow))
            /\ (pending.filters # None /\ c \notin PendingCriteria) =>
                   /\ RowsFor(Append(pending.filters[1], Entry(c, Some(v)))) = last.rows
                   /\ RowsFor(<<Entry(c, Some(v))>> \o pending.filters[1]) = last.rows

\* Status = ChooseOne("available") has returned every animal of the shelter,
\* those that are not available among them
C30_Witness ==
    /\ Queried
    /\ OnlyFilter("Status", ChooseOne("available"))
    /\ Len(animals) = Len(QueryAnimalInputs)
    /\ Len(last.rows) = Len(animals)
    /\ \E i \in 1..Len(last.rows) : last.rows[i].status # "Available"

--------------------------------------------------------------------------
(* The commands under the lock *)

\* the positions at which a command holds the guard
Held == {"init", "body", "scanned", "dialog", "picked"}

\* the positions at which a command has unwrapped its service
InBody == {"body", "scanned", "dialog", "picked"}

Services == {"file_service", "database_service", "authentication_service"}

\* C22: under every interleaving at most one command is past the lock, and it
\* holds the guard until it returns; each service is built at most once, and
\* a command in its body finds its service built.
C22_OneCommandAtATime ==
    /\ \A i \in DOMAIN invocations, j \in DOMAIN invocations :
           invocations[i].pc \in Held /\ invocations[j].pc \in Held => i = j
    /\ \A i \in DOMAIN invocations :
           /\ invocations[i].pc \in Held <=> state_guard = i
           /\ invocations[i].pc \in InBody
                  => app_state[ServiceOf(invocations[i].command.name)]
    /\ \A service \in Services :
           /\ constructed[service] <= 1
           /\ app_state[service] <=> constructed[service] = 1

C22_Witness ==
    \E i \in DOMAIN invocations, j \in DOMAIN invocations, k \in DOMAIN invocations :
        /\ invocations[k].pc = "returned" /\ invocations[k].result.ok
        /\ invocations[i].pc \in InBody
        /\ invocations[j].pc = "lock"
        /\ ServiceOf(invocations[i].command.name) = ServiceOf(invocations[k].command.name)
        /\ constructed[ServiceOf(invocations[i].command.name)] = 1

--------------------------------------------------------------------------
(* delete_file and the root directory *)

\* the files and links of a file system that are not in the root directory
OutsideRoot(fs) == {e \in fs : ~StartsWith(e.path, Root)}

\* what a delete_file command that returns in this step was called with
DeleteReturns(i) ==
    /\ Commanded(i, "body", "delete_file")
    /\ invocations'[i].pc = "returned"

\* C24: delete_file fails with a security violation, and removes nothing, for
\* a path that resolves outside the root (given directly, through ".." or
\* through a link); it fails for a path that names nothing; it succeeds for a
\* file in the root, which is gone afterwards; no file outside the root is
\* ever removed.
C24_DeleteStaysInRoot ==
    [][\A i \in DOMAIN invocations :
           DeleteReturns(i) =>
               LET file_path == invocations[i].command.arg
                   at == Normalized(file_path, <<>>)
                   canonical == Canonicalize(files, file_path)
                   result == invocations'[i].result
               IN  /\ canonical = None
                          => /\ ~result.ok
                             /\ result.cause = "File does not exist"
                             /\ files' = files
                   /\ canonical # None /\ ~StartsWith(canonical[1], Root)
                          => /\ ~result.ok
                             /\ result.cause = "Security violation"
                             /\ files' = files
                             /\ Canonicalize(files', file_path) = canonical
                   /\ FileEntry(at, None) \in files /\ StartsWith(at, Root)
                          => /\ result.ok
                             /\ files' = files \ {FileEntry(at, None)}
                             /\ Canonicalize(files', file_path) = None
                   /\ {e \in OutsideRoot(files) : e.link = None} \subseteq files'
                   /\ result.ok => canonical # None /\ StartsWith(canonical[1], Root)
      ]_vars

C24_Witness ==
    \E i \in DOMAIN invocations, j \in DOMAIN invocations, k \in DOMAIN invocations :
        /\ Commanded(i, "returned", "delete_file")
        /\ invocations[i].command.arg = Root \o <<"..", "outside_test_dir", "outside_file.txt">>
        /\ invocations[i].result.cause = "Security violation"
        /\ FileEntry(Outside \o <<"outside_file.txt">>, None) \in files
        /\ Commanded(j, "returned", "delete_file")
        /\ invocations[j].command.arg = Root \o <<"1700000000000.jpg">>
        /\ invocations[j].result.ok
        /\ FileEntry(Root \o <<"1700000000000.jpg">>, None) \notin files
        /\ Commanded(k, "returned", "delete_file")
        /\ invocations[k].command.arg = Root \o <<"link_out">>
        /\ invocations[k].result.cause = "Security violation"
        /\ FileEntry(Root \o <<"link_out">>, Some(Outside \o <<"outside_file.txt">>)) \in files

--------------------------------------------------------------------------
(* Blank ids under concurrent commands *)

Creates == {"create_animal", "create_adoption_request"}

\* the table a create command inserts into
TableOf(name) == IF name = "create_animal" THEN animals ELSE adoption_requests

\* the create commands of one kind that have returned an id
Created(name) ==
    {i \in DOMAIN invocations :
         Commanded(i, "returned", name) /\ invocations[i].result.ok}

\* C25: the scan and the insert of a blank-id create command run in one lock
\* hold, so the table is as it was scanned when the row is inserted; no
\* command fails with a duplicate id, every command whose service was built
\* (and, for a request, whose animal is stored) succeeds, and the ids the
\* commands of one kind return are pairwise distinct and are the ids stored.
C25_ConcurrentBlankIdsDistinct ==
    /\ \A i \in DOMAIN invocations :
           /\ invocations[i].pc = "scanned"
                  => /\ state_guard = i
                     /\ invocations[i].max_id = MaxCastId(TableOf(invocations[i].command.name))
           /\ invocations[i].pc = "returned" /\ invocations[i].command.name \in Creates
                  => /\ invocations[i].result.cause # "PrimaryKey"
                     /\ ~invocations[i].result.ok
                            => \/ invocations[i].result.cause = "Failed to create service"
                               \/ /\ invocations[i].command.name = "create_adoption_request"
                                  /\ invocations[i].result.cause = "ForeignKey"
    /\ \A name \in Creates :
           /\ \A i \in Created(name), j \in Created(name) :
                  invocations[i].result.value = invocations[j].result.value => i = j
           /\ {invocations[i].result.value : i \in Created(name)}
                  = {TableOf(name)[n].id : n \in 1..Len(TableOf(name))}
    /\ UniqueIds(animals)
    /\ UniqueIds(adoption_requests)

C25_Witness ==
    /\ Cardinality(Created("create_animal")) = 2
    /\ Cardinality(Created("create_adoption_request")) = 1
    /\ Len(animals) = 2
    /\ Len(adoption_requests) = 1

--------------------------------------------------------------------------
(* The dialog of upload_file *)

\* some upload_file waits for the user
DialogOpen == \E i \in DOMAIN invocations : invocations[i].pc = "dialog"

\* C26: from the opening of the dialog until upload_file returns, the
\* command holds the guard and no other command moves (commands invoked
\* meanwhile wait for the lock), the store, the users and the session stay
\* as they are and the files change only by the copy; a command that waits
\* for the lock returns in the end unless a dialog is left open.
C26_DialogSerializesCommands ==
    /\ [][\A i \in DOMAIN invocations :
              invocations[i].pc \in {"dialog", "picked"} =>
                  /\ state_guard = i
                  /\ \A j \in DOMAIN invocations \ {i} : invocations'[j] = invocations[j]
                  /\ \A j \in DOMAIN invocations' \ DOMAIN invocations :
                         invocations'[j].pc = "lock"
                  /\ UNCHANGED <<db_vars, auth_vars, app_state, constructed>>
                  /\ files' # files => invocations[i].pc = "picked"
                                           /\ invocations'[i].pc = "returned"
                  /\ state_guard' # state_guard => invocations'[i].pc = "returned"
         ]_vars
    /\ \A j \in 1..MaxInvocations :
           At(j, "lock") ~> (At(j, "returned") \/ DialogOpen)

C26_Witness ==
    \E i \in DOMAIN invocations, j \in DOMAIN invocations, k \in DOMAIN invocations :
        /\ i < j /\ i < k /\ j # k
        /\ Commanded(i, "returned", "upload_file")
        /\ invocations[i].result.value # None
        /\ invocations[j].pc = "returned"
        /\ invocations[j].command.name \in Creates
        /\ invocations[k].pc = "lock"
        /\ \E e \in files : Some(e.path) = invocations[i].result.value

--------------------------------------------------------------------------
(* The enums written and read back *)

\* the lowercase kebab-case name of each variant
KebabName ==
    [v \in AnimalStatus \cup RequestStatus \cup UserRole |->
         CASE v = "Available" -> "available"
           [] v = "Requested" -> "requested"
           [] v = "Adopted" -> "adopted"
           [] v = "PassedAway" -> "passed-away"
           [] v = "Pending" -> "pending"
           [] v = "Rejected" -> "rejected"
           [] v = "Approved" -> "approved"
           [] v = "Staff" -> "staff"
           [] v = "Customer" -> "customer"]

\* C23: a value of AnimalStatus, RequestStatus or UserRole is stored as its
\* kebab-case name and read back as itself; a stored text that is not the
\* name of a variant of the type is read as a decode error, never as a value.
C23_EnumRoundTrip ==
    /\ codec.stage \in {"stored", "read"} /\ codec.value # ""
           => codec.text = KebabName[codec.value]
    /\ codec.stage = "read" /\ codec.value # "" => codec.read = codec.value
    /\ codec.stage = "read"
           => IF \E v \in Variants(codec.type) : KebabName[v] = codec.text
              THEN codec.read \in Variants(codec.type) /\ KebabName[codec.read] = codec.text
              ELSE codec.read = "ParseError"

C23_Witness ==
    /\ codec.stage = "read"
    /\ codec.type = "AnimalStatus"
    /\ codec.value = "PassedAway"
    /\ codec.text = "passed-away"
    /\ codec.read = "PassedAway"

==========================================================================
